---- MODULE Spec2Model ----
\* A model of the cashu-broker crate: the HTTP handlers of api.rs, the
\* Broker facade of broker.rs, the SwapCoordinator of swap.rs, the
\* LiquidityManager of liquidity.rs and the quote/swap tables of db.rs.
EXTENDS Integers, Sequences, FiniteSets, TLC

\* ---------------------------------------------------------------- bounds

\* Number of concurrently running requests (tokio tasks).
NumTasks == 2
\* Number of quotes created in one behaviour.
MaxQuotes == 2
\* The clock runs from 0 to MaxTime.
MaxTime == 1
\* quote_expiry_seconds of the configuration, in clock ticks: a quote has
\* expired at the first tick after its creation.
QuoteTtl == 0
\* Amount of one liquidity deposit (Broker::initialize(amount_per_mint)), and
\* the amount of a deposit that covers every priced request.
DepositAmount == 10
LargeDeposit == 400
\* Requests that would credit a mint beyond MaxBalance are not started.
MaxBalance == 42
\* Number of proofs the ledger holds for one mint when it is explored alone.
MaxProofs == 2

\* -------------------------------------------------------- program constants

\* BrokerConfig::default().min_swap_amount
MinSwapAmount == 1
\* BrokerConfig::default().max_swap_amount
MaxSwapAmount == 10000
\* Significant bits of an f64 (the type of fee_rate and of the fee product).
F64MantissaBits == 53

\* ------------------------------------------------------------ f64 arithmetic
\* A fee rate is an f64: mant * 2^(-shift), the mantissa given as four limbs
\* of 15 bits, least significant first; num/den is the decimal the operator
\* configured (FEE_RATE), of which the f64 is the nearest double.

LimbBits == 15
LimbBase == 2 ^ LimbBits

Rate0 == [num |-> 0, den |-> 1000, mant |-> <<0, 0, 0, 0>>, shift |-> 60]
\* 0.005 = 5764607523034235 * 2^-60
Rate0005 == [num |-> 5, den |-> 1000, mant |-> <<5243, 3932, 27525, 163>>, shift |-> 60]
\* 0.07 = 5044031582654956 * 2^-56
Rate007 == [num |-> 70, den |-> 1000, mant |-> <<20972, 15728, 11796, 143>>, shift |-> 56]
\* 0.5 = 4503599627370496 * 2^-53
Rate05 == [num |-> 500, den |-> 1000, mant |-> <<0, 0, 0, 128>>, shift |-> 53]

\* limbs * a + carry, least significant limb first (a < 2^15).
RECURSIVE MulLimbs(_, _, _)
MulLimbs(limbs, a, carry) ==
    IF limbs = <<>> THEN <<carry>>
    ELSE LET p == Head(limbs) * a + carry
         IN  <<p % LimbBase>> \o MulLimbs(Tail(limbs), a, p \div LimbBase)

\* The bits of a limb sequence, most significant first.
RECURSIVE ToBits(_)
ToBits(limbs) ==
    IF limbs = <<>> THEN <<>>
    ELSE ToBits(Tail(limbs))
         \o [i \in 1..LimbBits |-> (Head(limbs) \div (2 ^ (LimbBits - i))) % 2]

RECURSIVE StripZeros(_)
StripZeros(bits) ==
    IF bits # <<>> /\ Head(bits) = 0 THEN StripZeros(Tail(bits)) ELSE bits

RECURSIVE IncBits(_)
IncBits(bits) ==
    IF bits = <<>> THEN <<1>>
    ELSE LET n == Len(bits)
         IN  IF bits[n] = 0 THEN SubSeq(bits, 1, n - 1) \o <<1>>
             ELSE IncBits(SubSeq(bits, 1, n - 1)) \o <<0>>

RECURSIVE BitsToInt(_)
BitsToInt(bits) ==
    IF bits = <<>> THEN 0
    ELSE 2 * BitsToInt(SubSeq(bits, 1, Len(bits) - 1)) + bits[Len(bits)]

\* Round-to-nearest-even of an exact product to F64MantissaBits bits: the
\* kept window of bits (one longer when the rounding carries out).
RoundToF64(bits) ==
    IF Len(bits) <= F64MantissaBits THEN bits
    ELSE LET keep   == SubSeq(bits, 1, F64MantissaBits)
             guard  == bits[F64MantissaBits + 1]
             sticky == \E i \in (F64MantissaBits + 2)..Len(bits) : bits[i] = 1
         IN  IF guard = 1 /\ (sticky \/ keep[F64MantissaBits] = 1)
             THEN IncBits(keep) ELSE keep

\* ((amount as f64) * rate).ceil() as u64, for amount < 2^15 and rate < 1.
F64MulCeil(amount, rate) ==
    LET exact   == StripZeros(ToBits(MulLimbs(rate.mant, amount, 0)))
        dropped == IF Len(exact) > F64MantissaBits
                   THEN Len(exact) - F64MantissaBits ELSE 0
        window  == RoundToF64(exact)
        \* number of bits of the window below the binary point
        frac    == rate.shift - dropped
        ipart   == IF Len(window) > frac
                   THEN BitsToInt(SubSeq(window, 1, Len(window) - frac)) ELSE 0
        lo      == IF Len(window) > frac THEN Len(window) - frac + 1 ELSE 1
        fnz     == \E i \in lo..Len(window) : window[i] = 1
    IN  ipart + (IF fnz THEN 1 ELSE 0)

\* u64::saturating_sub
saturating_sub(a, b) == IF b > a THEN 0 ELSE a - b

\* ------------------------------------------------------------------ keys
\* secp256k1 is modelled as the additive group of integers modulo GroupOrder
\* with generator 1: a scalar is a non-zero residue, the point s*G is written
\* Point(s), and 0 is no scalar (Point(0) is the point at infinity).

Scalars == {1, 2}
GroupOrder == Cardinality(Scalars) + 1

\* secp256kfun::G * s
Point(s) == [kind |-> "point", v |-> s % GroupOrder]
\* AdaptorContext::adaptor_point_from_secret
adaptor_point_from_secret(secret) == Point(secret)
\* An add_scalars that returns its first argument.
add_scalars_first(a, b) == a % GroupOrder
\* AdaptorContext::add_scalars
add_scalars(a, b) == (a + b) % GroupOrder
\* A tweak_public_key that returns the key without the tweak.
tweak_public_key_untweaked(pubkey, tweak) == Point(pubkey.v)
\* AdaptorContext::tweak_public_key
tweak_public_key(pubkey, tweak) == Point(pubkey.v + tweak.v)
\* scalar_to_bytes: the 32 bytes of a scalar (a value the holder can sign with)
scalar_to_bytes(s) == [kind |-> "scalar", v |-> s]

\* The pairs (adaptor_secret, broker_swap_key) the random generator draws.
AllKeyDraws == Scalars \X Scalars
KeyDraws == {<<2, 2>>}

\* The client's signing key and the public key it sends (compressed, hex).
ClientKey == scalar_to_bytes(1)
ClientPub == Point(ClientKey.v)
\* No bytes (Option::None, SQL NULL), and bytes that are hex but no point.
NoBytes == [kind |-> "none", v |-> 0]
BadPubkey == [kind |-> "bad", v |-> 0]
\* What a request may carry as user_pubkey: nothing, the key, or bad bytes.
PubkeyInputs == {NoBytes, ClientPub, BadPubkey}

\* compressed_bytes_to_point: the point, or None when the bytes are no point
compressed_bytes_to_point(bytes) ==
    IF bytes \in {Point(s) : s \in Scalars} THEN bytes ELSE NoBytes

\* -------------------------------------------------------------- the state

None == "none"

\* The mints of BrokerConfig.mints ("A", "B"), and "X", which is not one.
Mints == {"A", "B"}
\* BrokerConfig.mints, in the order of the configuration.
ConfigMints == <<"A", "B">>

Tasks == 1..NumTasks

Status == {"pending", "accepted", "completed", "expired", "failed"}

\* The requests a client sends: swaps of eight units from A to B, with each
\* kind of user_pubkey, and one request for each validation error.
Requests ==
    [from : {"A"}, to : {"B"}, amount : {8}, pk : PubkeyInputs]
    \cup [from : {"A"}, to : {"B"}, amount : {0, MaxSwapAmount + 1}, pk : {NoBytes}]
    \cup [from : {"A", "X"}, to : {"A"}, amount : {8}, pk : {NoBytes}]
    \cup [from : {"A"}, to : {"X"}, amount : {8}, pk : {NoBytes}]
\* The amounts and fee rates the pricing of requestQuote is explored with:
\* FEE_RATE = 0, 0.005, 0.07 and 0.5.
PricedAmounts == {1, 8, 100, 200}
PricedRates == {Rate0, Rate0005, Rate007, Rate05}
PricedRequests ==
    [from : {"A"}, to : {"B"}, amount : PricedAmounts, pk : {[kind |-> "point", v |-> 1]}]
\* The totals of the proofs a client submits to complete a swap.
ProofTotals == {8}
\* The keys under which the witness of submitted proofs verifies: the
\* tweaked keys broker_pub + T of the quotes.
WitnessKeys ==
    {tweak_public_key(Point(k[2]), adaptor_point_from_secret(k[1])) : k \in KeyDraws}
\* The proofs a client submits (client_proofs_with_witness): their total,
\* the key their witness verifies under (no bytes: no valid witness) and
\* their mint. ClientProofs are witnessed and of the quoted total;
\* AllClientProofs also are not witnessed, or of another total.
ClientProofs == [amount : ProofTotals, lock : WitnessKeys, mint : {"A"}]
AllProofTotals == ProofTotals \cup {5}
AllClientProofs ==
    [amount : ProofTotals, lock : WitnessKeys \cup {NoBytes}, mint : {"A"}]
    \cup [amount : AllProofTotals, lock : WitnessKeys, mint : {"A"}]
\* The fee rates of the configuration: BrokerConfig::default().fee_rate.
ConfigRates == {Rate0005}

VARIABLES
    config,      \* BrokerConfig (immutable after construction)
    now,         \* the clock (SystemTime::now, Utc::now)
    liquidity,   \* LiquidityManager.liquidity: mint -> MintLiquidity
    quotes,      \* SwapCoordinator.quotes: quote id -> QuoteData
    executions,  \* SwapCoordinator.executions: quote id -> SwapExecution
    quotesLock,  \* the RwLock of quotes: the tasks holding it to read, to write
    execLock,    \* the RwLock of executions: the tasks holding it to write
    dbQuotes,    \* table quotes: id -> QuoteRecord
    dbSwaps,     \* table swaps: the rows, in insertion order
    tasks,       \* the running requests: task -> its position and locals
    lastResp,    \* the response the last step returned (NoResp: none)
    clientView   \* quote id -> the values the responses gave the client

vars == <<config, now, liquidity, quotes, executions, quotesLock, execLock,
          dbQuotes, dbSwaps, tasks, lastResp, clientView>>

\* No proofs, and the proofs a mint call returns: their total, the key they
\* are locked to and the mint that issued them.
NoProofs == [amount |-> 0, lock |-> NoBytes, mint |-> None]

\* A task: the operation it runs, whether it came in over HTTP ("api") or as
\* a call of the Broker ("lib"), its position, and its locals: the quote id,
\* the request, a public key and a set of proofs.
Idle == [op |-> "idle", pc |-> "idle", via |-> None, q |-> 0,
         from |-> None, to |-> None, amount |-> 0,
         pk |-> NoBytes, proofs |-> NoProofs, mint_balances |-> <<>>,
         broker_with_adaptor |-> 0]

NoResp == [op |-> None, res |-> None, needed |-> 0, available |-> 0,
           proofs |-> NoProofs, count |-> 0, rows |-> <<>>,
           mints |-> <<>>, total_balance |-> 0, mint_url |-> None]
Resp(op, res) == [NoResp EXCEPT !.op = op, !.res = res]
\* The Ok(proofs) of Broker::accept_quote, and the target_proofs of the
\* AcceptQuoteResponse.
RespProofs(op, proofs) == [Resp(op, "ok") EXCEPT !.proofs = proofs]

\* BrokerConfig: the fee rate is the only field the behaviours vary.
ConfigsOf(rates) ==
    [fee_rate : rates,
     min_swap_amount : {MinSwapAmount},
     max_swap_amount : {MaxSwapAmount},
     quote_expiry_seconds : {QuoteTtl}]
Configs == ConfigsOf(ConfigRates)

\* LiquidityManager::new: every configured mint with balance 0 and no proofs;
\* SwapCoordinator::new: no quotes, no executions; an empty database.
InitWith(configs) ==
    /\ config \in configs
    /\ now = 0
    /\ liquidity = [m \in Mints |-> [balance |-> 0, proofs |-> <<>>]]
    /\ quotes = <<>>
    /\ executions = <<>>
    /\ quotesLock = [readers |-> {}, writer |-> {}]
    /\ execLock = {}
    /\ dbQuotes = <<>>
    /\ dbSwaps = <<>>
    /\ tasks = [t \in Tasks |-> Idle]
    /\ lastResp = NoResp
    /\ clientView = <<>>

Init == InitWith(Configs)

\* ---------------------------------------------------------------- ledger

\* A get_balance that reads the balance of the first mint whatever the mint.
get_balance_first_mint(mint_url) == liquidity[ConfigMints[1]].balance

\* LiquidityManager::get_balance
get_balance(mint_url) ==
    IF mint_url \in DOMAIN liquidity THEN liquidity[mint_url].balance ELSE 0

\* LiquidityManager::can_swap
can_swap(mint_url, amount) == get_balance(mint_url) >= amount

RECURSIVE SumSeq(_)
SumSeq(s) == IF s = <<>> THEN 0 ELSE Head(s).amount + SumSeq(Tail(s))

\* The proofs a mint issues for an amount: one proof, a record of its secret
\* (unique among the proofs held for the mint) and its amount.
NewProofs(liq, mint_url, amount) ==
    LET held == {liq[mint_url].proofs[i].secret : i \in DOMAIN liq[mint_url].proofs}
        fresh == CHOOSE x \in 1..(Cardinality(held) + 1) :
                    x \notin held /\ \A y \in 1..(x - 1) : y \in held
    IN  <<[secret |-> fresh, amount |-> amount]>>

\* LiquidityManager::add_proofs: the ledger after adding proofs (a sequence
\* of proof amounts) to a configured mint.
add_proofs(liq, mint_url, proofs) ==
    [liq EXCEPT ![mint_url] =
        [balance |-> @.balance + SumSeq(proofs), proofs |-> @.proofs \o proofs]]

\* The proofs of s whose secret is not in secrets (Vec::retain).
RECURSIVE Retain(_, _)
Retain(s, secrets) ==
    IF s = <<>> THEN <<>>
    ELSE (IF Head(s).secret \in secrets THEN <<>> ELSE <<Head(s)>>)
         \o Retain(Tail(s), secrets)

\* LiquidityManager::remove_proofs: the ledger after removing proofs from a
\* configured mint: the held proofs with one of the given secrets go, and
\* the balance goes down by the sum of the given amounts.
remove_proofs(liq, mint_url, proofs_to_remove) ==
    LET amount == SumSeq(proofs_to_remove)
        secrets_to_remove ==
            {proofs_to_remove[i].secret : i \in DOMAIN proofs_to_remove}
    IN  [liq EXCEPT ![mint_url] =
            [balance |-> saturating_sub(@.balance, amount),
             proofs |-> Retain(@.proofs, secrets_to_remove)]]

\* Broker::initialize / LiquidityManager::initialize_liquidity for one mint
\* that holds nothing yet: the tokens minted on it are added to the ledger.
Deposit(m, amount) ==
    /\ liquidity[m].proofs = <<>>
    /\ liquidity' = add_proofs(liquidity, m, NewProofs(liquidity, m, amount))
    /\ lastResp' = NoResp
    /\ UNCHANGED <<config, now, quotes, executions, quotesLock, execLock,
                   dbQuotes, dbSwaps, tasks, clientView>>

\* The clock advances.
Tick ==
    /\ now < MaxTime
    /\ now' = now + 1
    /\ lastResp' = NoResp
    /\ UNCHANGED <<config, liquidity, quotes, executions, quotesLock,
                   execLock, dbQuotes, dbSwaps, tasks, clientView>>

\* ------------------------------------------------------------- helpers

\* The task returns: it becomes idle again.
Return(t) == [tasks EXCEPT ![t] = Idle]
Goto(t, pc) == [tasks EXCEPT ![t].pc = pc]

LockFree == quotesLock.readers = {} /\ quotesLock.writer = {}

\* Quotes that exist or are about to be inserted.
QuotesInProgress ==
    Len(quotes) + Cardinality({t \in Tasks : tasks[t].pc = "rq_insert"})

\* What the running completeSwap calls may still add to the balance of a mint.
CreditsInProgress(m) ==
    LET crediting == {t \in Tasks : /\ tasks[t].pc \in {"cs_lock", "cs_mint"}
                                    /\ tasks[t].q \in DOMAIN quotes
                                    /\ quotes[tasks[t].q].quote.from_mint = m}
        total[S \in SUBSET crediting] ==
            IF S = {} THEN 0
            ELSE LET t == CHOOSE x \in S : TRUE
                 IN  tasks[t].amount + total[S \ {t}]
    IN  total[crediting]

\* ------------------------------------------------------------ requestQuote

\* SwapCoordinator::validate_swap_request: "ok" or the first error.
validate_swap_request(from, to, amount) ==
    IF amount < config.min_swap_amount THEN "AmountTooLow"
    ELSE IF amount > config.max_swap_amount THEN "AmountTooHigh"
    ELSE IF from \notin Mints THEN "UnsupportedMint"
    ELSE IF to \notin Mints THEN "UnsupportedMint"
    ELSE IF from = to THEN "SameMintSwap"
    ELSE "ok"

\* create_quote, line 55: the fee of an amount at a rate.
quote_fee(amount, fee_rate) == F64MulCeil(amount, fee_rate)
\* create_quote, line 56
quote_output_amount(amount, fee_amount) == saturating_sub(amount, fee_amount)

\* The fees of the amounts and rates that occur, computed once.
FeeTable == [a \in PricedAmounts, r \in PricedRates |-> quote_fee(a, r)]

fee(amount) == FeeTable[amount, config.fee_rate]
output_amount(amount) == quote_output_amount(amount, fee(amount))

\* POST /quote (api::request_quote) or Broker::request_quote: the request is
\* validated, priced and checked against the balance of to_mint
\* (create_quote, lines 52-65).
request_quote(t, via, req) ==
    /\ tasks[t].pc = "idle"
    /\ LET err == validate_swap_request(req.from, req.to, req.amount)
       IN  IF err # "ok"
           THEN /\ lastResp' = Resp("request_quote", err)
                /\ UNCHANGED tasks
           ELSE /\ tasks' = [tasks EXCEPT ![t] =
                        [Idle EXCEPT !.op = "request_quote", !.via = via,
                                     !.from = req.from, !.to = req.to,
                                     !.amount = req.amount, !.pk = req.pk,
                                     !.pc = IF can_swap(req.to, output_amount(req.amount))
                                            THEN "rq_insert" ELSE "rq_insuff"]]
                /\ lastResp' = NoResp
    /\ UNCHANGED <<config, now, liquidity, quotes, executions, quotesLock,
                   execLock, dbQuotes, dbSwaps, clientView>>

\* create_quote, lines 67-112: the QuoteData of a request, given the two
\* random scalars.
QuoteData(req, adaptor_secret, broker_swap_key) ==
    LET adaptor_point == adaptor_point_from_secret(adaptor_secret)
        broker_pubkey_point == Point(broker_swap_key)
    IN  [quote |->
            [from_mint |-> req.from,
             to_mint |-> req.to,
             input_amount |-> req.amount,
             output_amount |-> output_amount(req.amount),
             fee |-> fee(req.amount),
             fee_rate |-> config.fee_rate,
             broker_public_key |-> broker_pubkey_point,
             adaptor_point |-> adaptor_point,
             tweaked_pubkey |-> tweak_public_key(broker_pubkey_point, adaptor_point),
             adaptor_secret |-> scalar_to_bytes(adaptor_secret),
             expires_in |-> config.quote_expiry_seconds,
             expires_at |-> now + config.quote_expiry_seconds,
             status |-> "pending"],
         broker_swap_key |-> broker_swap_key,
         adaptor_secret |-> adaptor_secret]

\* A create_quote that inserts the quote before it reports the missing
\* liquidity.
create_quote_insufficient_inserting(t) ==
    /\ tasks[t].pc = "rq_insuff"
    /\ LockFree
    /\ quotes' = Append(quotes, QuoteData(tasks[t], 2, 2))
    /\ lastResp' = [Resp("request_quote", "InsufficientLiquidity") EXCEPT
                       !.needed = output_amount(tasks[t].amount),
                       !.available = get_balance(tasks[t].to)]
    /\ tasks' = Return(t)
    /\ UNCHANGED <<config, now, liquidity, executions, quotesLock,
                   execLock, dbQuotes, dbSwaps, clientView>>

\* create_quote, lines 60-64: the InsufficientLiquidity error, whose
\* available field is read from the ledger again.
create_quote_insufficient(t) ==
    /\ tasks[t].pc = "rq_insuff"
    /\ lastResp' = [Resp("request_quote", "InsufficientLiquidity") EXCEPT
                       !.needed = output_amount(tasks[t].amount),
                       !.available = get_balance(tasks[t].to)]
    /\ tasks' = Return(t)
    /\ UNCHANGED <<config, now, liquidity, quotes, executions, quotesLock,
                   execLock, dbQuotes, dbSwaps, clientView>>

\* The SwapQuote struct (types.rs, lines 52-78) as a caller of the Broker
\* holds it: the byte fields it can read.
SwapQuoteFields(quote) ==
    {quote.broker_public_key, quote.adaptor_point, quote.tweaked_pubkey,
     quote.adaptor_secret}

\* create_quote, lines 67-117: the keys are drawn and the quote is inserted
\* under the write lock of quotes; a Broker call returns the SwapQuote (a
\* clone of the one that was stored) to its caller.
create_quote(t, adaptor_secret, broker_swap_key) ==
    /\ tasks[t].pc = "rq_insert"
    /\ LockFree
    /\ quotes' = Append(quotes, QuoteData(tasks[t], adaptor_secret, broker_swap_key))
    /\ IF tasks[t].via = "api"
       THEN /\ tasks' = [tasks EXCEPT ![t].pc = "rq_db", ![t].q = Len(quotes) + 1]
            /\ lastResp' = NoResp
            /\ UNCHANGED clientView
       ELSE /\ tasks' = Return(t)
            /\ lastResp' = Resp("request_quote", "ok")
            /\ clientView' =
                  (Len(quotes) + 1 :>
                      SwapQuoteFields(QuoteData(tasks[t], adaptor_secret,
                                                broker_swap_key).quote))
                  @@ clientView
    /\ UNCHANGED <<config, now, liquidity, executions, quotesLock, execLock,
                   dbQuotes, dbSwaps>>

\* api::request_quote, lines 174-195: the QuoteRecord of a quote.
QuoteRecord(quote, user_pubkey) ==
    [amount_in |-> quote.input_amount,
     amount_out |-> quote.output_amount,
     fee |-> quote.fee,
     fee_rate |-> quote.fee_rate,
     source_mint |-> quote.from_mint,
     target_mint |-> quote.to_mint,
     broker_pubkey |-> quote.broker_public_key,
     adaptor_point |-> quote.adaptor_point,
     tweaked_pubkey |-> quote.tweaked_pubkey,
     status |-> "pending",
     created_at |-> now,
     expires_at |-> now + quote.expires_in,
     accepted_at |-> -1,
     completed_at |-> -1,
     user_pubkey |-> user_pubkey,
     error_message |-> None]

\* The JSON of a SwapQuote: adaptor_secret and expires_at are not serialized
\* (types.rs, lines 71-76); the points are what the client learns.
QuoteJson(quote) ==
    {quote.broker_public_key, quote.adaptor_point, quote.tweaked_pubkey}

\* api::request_quote, lines 173-203 and Database::create_quote: the quote
\* is saved and returned to the client.
request_quote_save(t) ==
    /\ tasks[t].pc = "rq_db"
    /\ LET q == tasks[t].q
       IN  /\ dbQuotes' = (q :> QuoteRecord(quotes[q].quote, tasks[t].pk)) @@ dbQuotes
           /\ clientView' = (q :> QuoteJson(quotes[q].quote)) @@ clientView
    /\ lastResp' = Resp("request_quote", "ok")
    /\ tasks' = Return(t)
    /\ UNCHANGED <<config, now, liquidity, quotes, executions, quotesLock,
                   execLock, dbSwaps>>

\* ------------------------------------------------------------- the Store

\* An update_quote_status that stamps completed_at on acceptance and
\* accepted_at on completion.
update_quote_status_swapped_stamps(db, id, status, error_message) ==
    IF id \notin DOMAIN db THEN db
    ELSE [db EXCEPT ![id] =
            IF status = "accepted"
            THEN [@ EXCEPT !.status = status, !.completed_at = now]
            ELSE IF status = "completed"
            THEN [@ EXCEPT !.status = status, !.accepted_at = now]
            ELSE IF status \in {"failed", "expired"}
            THEN [@ EXCEPT !.status = status, !.error_message = error_message]
            ELSE [@ EXCEPT !.status = status]]

\* An update_quote_status whose timestamp is bound to the fee column.
update_quote_status_fee_column(db, id, status, error_message) ==
    IF id \notin DOMAIN db THEN db
    ELSE [db EXCEPT ![id] = [@ EXCEPT !.status = status, !.fee = now]]

\* Database::update_quote_status: the table after the UPDATE (no row, no
\* change).
update_quote_status(db, id, status, error_message) ==
    IF id \notin DOMAIN db THEN db
    ELSE [db EXCEPT ![id] =
            IF status = "accepted"
            THEN [@ EXCEPT !.status = status, !.accepted_at = now]
            ELSE IF status = "completed"
            THEN [@ EXCEPT !.status = status, !.completed_at = now]
            ELSE IF status \in {"failed", "expired"}
            THEN [@ EXCEPT !.status = status, !.error_message = error_message]
            ELSE [@ EXCEPT !.status = status]]

\* A DELETE without the condition on the status.
ExpiredRows_any_status(db) ==
    {id \in DOMAIN db : db[id].expires_at < now}

\* Database::delete_expired_quotes: the ids of the rows the DELETE removes.
ExpiredRows(db) ==
    {id \in DOMAIN db : db[id].status = "pending" /\ db[id].expires_at < now}

\* Database::delete_expired_quotes: the rows are deleted and their number
\* (rows_affected) is returned.
delete_expired_quotes ==
    /\ dbQuotes' = [id \in DOMAIN dbQuotes \ ExpiredRows(dbQuotes) |-> dbQuotes[id]]
    /\ lastResp' = [Resp("delete_expired_quotes", "ok") EXCEPT
                        !.count = Cardinality(ExpiredRows(dbQuotes))]
    /\ UNCHANGED <<config, now, liquidity, quotes, executions, quotesLock,
                   execLock, dbSwaps, tasks, clientView>>

\* Database::create_quote: the row is inserted under its id.
db_create_quote(id, quote) ==
    /\ id \notin DOMAIN dbQuotes
    /\ dbQuotes' = (id :> quote) @@ dbQuotes
    /\ lastResp' = Resp("create_quote", "ok")
    /\ UNCHANGED <<config, now, liquidity, quotes, executions, quotesLock,
                   execLock, dbSwaps, tasks, clientView>>

\* A call of Database::update_quote_status.
db_update_quote_status(id, status, error_message) ==
    /\ dbQuotes' = update_quote_status(dbQuotes, id, status, error_message)
    /\ lastResp' = Resp("update_quote_status", "ok")
    /\ UNCHANGED <<config, now, liquidity, quotes, executions, quotesLock,
                   execLock, dbSwaps, tasks, clientView>>

\* ORDER BY created_at DESC: the orders in which the rows ids may come, rows
\* created at the same instant in any order.
ByCreatedDesc(db, ids) ==
    {s \in [1..Cardinality(ids) -> ids] :
        /\ \A i, j \in DOMAIN s : i # j => s[i] # s[j]
        /\ \A i, j \in DOMAIN s :
              i < j => db[s[i]].created_at >= db[s[j]].created_at}

\* LIMIT ?: the first limit rows; SQLite reads a negative limit as no limit.
Limit(rows, limit) ==
    IF limit < 0 \/ limit >= Len(rows) THEN rows ELSE SubSeq(rows, 1, limit)

\* Database::list_quotes: the results the SELECT may give (the ids of the rows
\* returned, in order), with the status filter when one is given.
db_list_quotes(db, status, limit) ==
    LET ids == IF status = None THEN DOMAIN db
               ELSE {id \in DOMAIN db : db[id].status = status}
    IN  {Limit(s, limit) : s \in ByCreatedDesc(db, ids)}

\* SwapStatus::from_str followed by .ok(): the status named by the string in
\* any case, or None.
parse_status(s) ==
    IF s \in Status THEN s
    ELSE IF s = "PENDING" THEN "pending"
    ELSE None

\* GET /quotes (api::list_quotes): query.status is parsed, an unparsable one
\* dropped, and the rows of Database::list_quotes are returned.
list_quotes(query) ==
    /\ LET status == IF query.status = None THEN None
                      ELSE parse_status(query.status)
       IN  \E rows \in db_list_quotes(dbQuotes, status, query.limit) :
              lastResp' = [Resp("list_quotes", "ok") EXCEPT !.rows = rows]
    /\ UNCHANGED <<config, now, liquidity, quotes, executions, quotesLock,
                   execLock, dbQuotes, dbSwaps, tasks, clientView>>

\* Database::create_swap: the row the INSERT writes (the columns it does not
\* name are NULL).
SwapRow(swap) ==
    [quote_id |-> swap.quote_id,
     source_proofs |-> swap.source_proofs,
     target_proofs |-> NoProofs,
     encrypted_signature |-> swap.encrypted_signature,
     decrypted_signature |-> NoProofs,
     adaptor_secret |-> NoBytes,
     completed_at |-> -1]

\* Database::get_swap_by_quote: the index of the first row of the quote, or 0.
get_swap_by_quote(swaps, quote_id) ==
    LET rows == {i \in 1..Len(swaps) : swaps[i].quote_id = quote_id}
    IN  IF rows = {} THEN 0 ELSE CHOOSE i \in rows : \A j \in rows : i <= j

\* Database::complete_swap: the table after the UPDATE of row id.
db_complete_swap(swaps, id, target_proofs, decrypted_signature, adaptor_secret) ==
    [swaps EXCEPT ![id] =
        [@ EXCEPT !.target_proofs = target_proofs,
                  !.decrypted_signature = decrypted_signature,
                  !.adaptor_secret = adaptor_secret,
                  !.completed_at = now]]

\* ------------------------------------------------------------- acceptQuote

\* POST /quote/:id/accept (api::accept_quote, lines 212-237): the quote is
\* read from the Store, which must hold it as pending with a user_pubkey.
accept_quote(t, q) ==
    /\ tasks[t].pc = "idle"
    /\ IF q \notin DOMAIN dbQuotes
       THEN /\ lastResp' = Resp("accept_quote", "NotFound")
            /\ UNCHANGED tasks
       ELSE IF dbQuotes[q].status # "pending"
       THEN /\ lastResp' = Resp("accept_quote", "BadRequest")
            /\ UNCHANGED tasks
       ELSE IF dbQuotes[q].user_pubkey = NoBytes
       THEN /\ lastResp' = Resp("accept_quote", "BadRequest")
            /\ UNCHANGED tasks
       ELSE /\ tasks' = [tasks EXCEPT ![t] =
                    [Idle EXCEPT !.op = "accept_quote", !.via = "api",
                                 !.pc = "ps_lock", !.q = q,
                                 !.pk = dbQuotes[q].user_pubkey]]
            /\ lastResp' = NoResp
    /\ UNCHANGED <<config, now, liquidity, quotes, executions, quotesLock,
                   execLock, dbQuotes, dbSwaps, clientView>>

\* Broker::accept_quote(quote_id, client_pubkey) called directly.
broker_accept_quote(t, q, pk) ==
    /\ tasks[t].pc = "idle"
    /\ tasks' = [tasks EXCEPT ![t] =
            [Idle EXCEPT !.op = "accept_quote", !.via = "lib",
                         !.pc = "ps_lock", !.q = q, !.pk = pk]]
    /\ lastResp' = NoResp
    /\ UNCHANGED <<config, now, liquidity, quotes, executions, quotesLock,
                   execLock, dbQuotes, dbSwaps, clientView>>

\* A prepare_swap that lost its status check: every status passes.
IsPending_unchecked(status) == status \in Status

\* prepare_swap, line 132: the check of the quote's status.
IsPending(status) == status = "pending"

\* prepare_swap, lines 127-172: the write lock of quotes is taken, the quote
\* is looked up and checked, the client's key is parsed, and the mint is
\* asked for tokens locked to client + T; the lock stays held.
prepare_swap(t) ==
    /\ tasks[t].pc = "ps_lock"
    /\ LockFree
    /\ LET q == tasks[t].q
           err == IF q \notin DOMAIN quotes THEN "QuoteNotFound"
                  ELSE IF ~IsPending(quotes[q].quote.status) THEN "InvalidSwapRequest"
                  ELSE IF compressed_bytes_to_point(tasks[t].pk) = NoBytes
                  THEN "AdaptorSignature"
                  ELSE "ok"
       IN  IF err # "ok"
           THEN /\ lastResp' = Resp("accept_quote", err)
                /\ tasks' = Return(t)
                /\ UNCHANGED quotesLock
           ELSE /\ quotesLock' = [quotesLock EXCEPT !.writer = {t}]
                /\ tasks' = Goto(t, "ps_mint")
                /\ lastResp' = NoResp
    /\ UNCHANGED <<config, now, liquidity, quotes, executions, execLock,
                   dbQuotes, dbSwaps, clientView>>

\* prepare_swap, lines 165-176: mint_with_conditions returns. An error is
\* returned to the caller (the quote is left as it is); on success the quote
\* becomes Accepted.
prepare_swap_minted(t) ==
    /\ tasks[t].pc = "ps_mint"
    /\ LET q == tasks[t].q
           adaptor_point == adaptor_point_from_secret(quotes[q].adaptor_secret)
           client_tweaked == tweak_public_key(
                                 compressed_bytes_to_point(tasks[t].pk), adaptor_point)
       IN  \E minted \in BOOLEAN :
              IF minted
              THEN /\ quotes' = [quotes EXCEPT ![q].quote.status = "accepted"]
                   /\ tasks' = [tasks EXCEPT ![t].pc = "ps_exec",
                                             ![t].proofs =
                                   [amount |-> quotes[q].quote.output_amount,
                                    lock |-> client_tweaked,
                                    mint |-> quotes[q].quote.to_mint]]
                   /\ lastResp' = NoResp
                   /\ UNCHANGED quotesLock
              ELSE /\ quotesLock' = [quotesLock EXCEPT !.writer = {}]
                   /\ lastResp' = Resp("accept_quote", "Cdk")
                   /\ tasks' = Return(t)
                   /\ UNCHANGED quotes
    /\ UNCHANGED <<config, now, liquidity, executions, execLock, dbQuotes,
                   dbSwaps, clientView>>

\* prepare_swap, lines 179-186: the SwapExecution of an accepted quote.
SwapExecution(proofs) ==
    [client_tokens |-> NoProofs,
     broker_tokens |-> proofs,
     client_swap_complete |-> FALSE,
     broker_swap_complete |-> FALSE]

\* prepare_swap, lines 188-193: the execution is inserted under the write
\* lock of executions, and both locks are released on return.
prepare_swap_record(t) ==
    /\ tasks[t].pc = "ps_exec"
    /\ execLock = {}
    /\ executions' = (tasks[t].q :> SwapExecution(tasks[t].proofs)) @@ executions
    /\ quotesLock' = [quotesLock EXCEPT !.writer = {}]
    /\ IF tasks[t].via = "api"
       THEN /\ tasks' = Goto(t, "aq_upd")
            /\ lastResp' = NoResp
       ELSE /\ tasks' = Return(t)
            /\ lastResp' = RespProofs("accept_quote", tasks[t].proofs)
    /\ UNCHANGED <<config, now, liquidity, quotes, execLock, dbQuotes, dbSwaps,
                   clientView>>

\* api::accept_quote, lines 254-259: the stored status becomes accepted.
accept_quote_update(t) ==
    /\ tasks[t].pc = "aq_upd"
    /\ dbQuotes' = update_quote_status(dbQuotes, tasks[t].q, "accepted", None)
    /\ tasks' = Goto(t, "aq_swap")
    /\ lastResp' = NoResp
    /\ UNCHANGED <<config, now, liquidity, quotes, executions, quotesLock,
                   execLock, dbSwaps, clientView>>

\* api::accept_quote, lines 250-283: the swap record is created and the
\* response carries the adaptor point (as "encrypted_signature") and the
\* locked proofs.
accept_quote_respond(t) ==
    /\ tasks[t].pc = "aq_swap"
    /\ LET q == tasks[t].q
           encrypted_signature == quotes[q].quote.adaptor_point
       IN  /\ dbSwaps' = Append(dbSwaps,
                  SwapRow([quote_id |-> q,
                           source_proofs |-> NoProofs,
                           target_proofs |-> tasks[t].proofs,
                           encrypted_signature |-> encrypted_signature]))
           /\ clientView' = [clientView EXCEPT ![q] = @ \cup {encrypted_signature}]
    /\ lastResp' = RespProofs("accept_quote", tasks[t].proofs)
    /\ tasks' = Return(t)
    /\ UNCHANGED <<config, now, liquidity, quotes, executions, quotesLock,
                   execLock, dbQuotes>>

\* ------------------------------------------------------------ completeSwap

\* POST /quote/:id/complete (api::complete_quote, lines 292-310): the quote
\* is read from the Store, which must hold it as accepted; the body is the
\* client's proofs (decrypted_signature).
complete_quote(t, q, proofs) ==
    /\ tasks[t].pc = "idle"
    /\ IF q \notin DOMAIN dbQuotes
       THEN /\ lastResp' = Resp("complete_swap", "NotFound")
            /\ UNCHANGED tasks
       ELSE IF dbQuotes[q].status # "accepted"
       THEN /\ lastResp' = Resp("complete_swap", "BadRequest")
            /\ UNCHANGED tasks
       ELSE /\ tasks' = [tasks EXCEPT ![t] =
                    [Idle EXCEPT !.op = "complete_swap", !.via = "api",
                                 !.pc = "cs_lock", !.q = q,
                                 !.amount = proofs.amount, !.proofs = proofs,
                                 !.pk = dbQuotes[q].adaptor_point]]
            /\ lastResp' = NoResp
    /\ UNCHANGED <<config, now, liquidity, quotes, executions, quotesLock,
                   execLock, dbQuotes, dbSwaps, clientView>>

\* Broker::complete_swap(quote_id, client_tokens) called directly.
broker_complete_swap(t, q, proofs) ==
    /\ tasks[t].pc = "idle"
    /\ tasks' = [tasks EXCEPT ![t] =
            [Idle EXCEPT !.op = "complete_swap", !.via = "lib",
                         !.pc = "cs_lock", !.q = q,
                         !.amount = proofs.amount, !.proofs = proofs]]
    /\ lastResp' = NoResp
    /\ UNCHANGED <<config, now, liquidity, quotes, executions, quotesLock,
                   execLock, dbQuotes, dbSwaps, clientView>>

\* complete_swap, lines 203-236: the read lock of quotes is taken, the quote
\* is looked up, and the client's proofs are sent to the from_mint for a
\* swap; the read lock stays held.
complete_swap(t) ==
    /\ tasks[t].pc = "cs_lock"
    /\ quotesLock.writer = {}
    /\ IF tasks[t].q \notin DOMAIN quotes
       THEN /\ lastResp' = Resp("complete_swap", "QuoteNotFound")
            /\ tasks' = Return(t)
            /\ UNCHANGED quotesLock
       ELSE /\ quotesLock' = [quotesLock EXCEPT !.readers = @ \cup {t}]
            /\ tasks' = [tasks EXCEPT
                   ![t].pc = "cs_mint",
                   ![t].broker_with_adaptor =
                       add_scalars(quotes[tasks[t].q].broker_swap_key,
                                   quotes[tasks[t].q].adaptor_secret)]
            /\ lastResp' = NoResp
    /\ UNCHANGED <<config, now, liquidity, quotes, executions, execLock,
                   dbQuotes, dbSwaps, clientView>>

\* Wallet::swap at the mint: proofs without a valid witness are refused;
\* witnessed proofs are swapped, or the call fails.
MintSwaps(proofs) == IF proofs.lock = NoBytes THEN {FALSE} ELSE BOOLEAN

\* A complete_swap that goes on after a failed swap at the mint.
complete_swap_swapped_ignoring_failure(t) ==
    /\ tasks[t].pc = "cs_mint"
    /\ LET from_mint == quotes[tasks[t].q].quote.from_mint
           total_amount == tasks[t].amount
       IN  \E swapped \in MintSwaps(tasks[t].proofs) :
              liquidity' = IF swapped
                           THEN add_proofs(liquidity, from_mint,
                                    NewProofs(liquidity, from_mint, total_amount))
                           ELSE liquidity
    /\ tasks' = Goto(t, "cs_exec")
    /\ lastResp' = NoResp
    /\ UNCHANGED <<config, now, quotes, executions, quotesLock, execLock,
                   dbQuotes, dbSwaps, clientView>>

\* complete_swap, lines 228-242: the mint's swap returns. An error is
\* returned to the caller; on success the new proofs, of the total the
\* client sent, are added to the ledger of from_mint.
complete_swap_swapped(t) ==
    /\ tasks[t].pc = "cs_mint"
    /\ LET from_mint == quotes[tasks[t].q].quote.from_mint
           total_amount == tasks[t].amount
       IN  \E swapped \in MintSwaps(tasks[t].proofs) :
              IF swapped
              THEN /\ liquidity' = add_proofs(liquidity, from_mint,
                                      NewProofs(liquidity, from_mint, total_amount))
                   /\ tasks' = Goto(t, "cs_exec")
                   /\ lastResp' = NoResp
                   /\ UNCHANGED quotesLock
              ELSE /\ quotesLock' = [quotesLock EXCEPT !.readers = @ \ {t}]
                   /\ lastResp' = Resp("complete_swap", "Cdk")
                   /\ tasks' = Return(t)
                   /\ UNCHANGED liquidity
    /\ UNCHANGED <<config, now, quotes, executions, execLock, dbQuotes,
                   dbSwaps, clientView>>

\* complete_swap, lines 245-253: the write lock of executions is taken, the
\* execution (if there is one) is marked complete, and the read lock of
\* quotes is dropped.
complete_swap_execution(t) ==
    /\ tasks[t].pc = "cs_exec"
    /\ execLock = {}
    /\ execLock' = {t}
    /\ executions' =
          IF tasks[t].q \in DOMAIN executions
          THEN [executions EXCEPT ![tasks[t].q] =
                   [@ EXCEPT !.client_swap_complete = TRUE,
                             !.broker_swap_complete = TRUE]]
          ELSE executions
    /\ quotesLock' = [quotesLock EXCEPT !.readers = @ \ {t}]
    /\ tasks' = Goto(t, "cs_write")
    /\ lastResp' = NoResp
    /\ UNCHANGED <<config, now, liquidity, quotes, dbQuotes, dbSwaps,
                   clientView>>

\* complete_swap, lines 254-264: the write lock of quotes is taken and the
\* quote becomes Completed; both locks are released on return.
complete_swap_status(t) ==
    /\ tasks[t].pc = "cs_write"
    /\ LockFree
    /\ quotes' = [quotes EXCEPT ![tasks[t].q].quote.status = "completed"]
    /\ execLock' = {}
    /\ IF tasks[t].via = "api"
       THEN /\ tasks' = Goto(t, "cq_upd")
            /\ lastResp' = NoResp
       ELSE /\ tasks' = Return(t)
            /\ lastResp' = Resp("complete_swap", "ok")
    /\ UNCHANGED <<config, now, liquidity, executions, quotesLock, dbQuotes,
                   dbSwaps, clientView>>

\* api::complete_quote, lines 322-327: the stored status becomes completed.
complete_quote_update(t) ==
    /\ tasks[t].pc = "cq_upd"
    /\ dbQuotes' = update_quote_status(dbQuotes, tasks[t].q, "completed", None)
    /\ tasks' = Goto(t, "cq_swap")
    /\ lastResp' = NoResp
    /\ UNCHANGED <<config, now, liquidity, quotes, executions, quotesLock,
                   execLock, dbSwaps, clientView>>

\* api::complete_quote, lines 319-354: the swap record is completed and the
\* response carries, as "adaptor_secret", the adaptor point of the quote
\* record.
complete_quote_respond(t) ==
    /\ tasks[t].pc = "cq_swap"
    /\ LET q == tasks[t].q
           adaptor_secret == tasks[t].pk
           id == get_swap_by_quote(dbSwaps, q)
       IN  IF id = 0
           THEN /\ lastResp' = Resp("complete_swap", "NotFound")
                /\ UNCHANGED <<dbSwaps, clientView>>
           ELSE /\ dbSwaps' = db_complete_swap(dbSwaps, id, dbSwaps[id].target_proofs,
                                 tasks[t].proofs,
                                 adaptor_secret)
                /\ clientView' = [clientView EXCEPT ![q] = @ \cup {adaptor_secret}]
                /\ lastResp' = Resp("complete_swap", "ok")
    /\ tasks' = Return(t)
    /\ UNCHANGED <<config, now, liquidity, quotes, executions, quotesLock,
                   execLock, dbQuotes>>

\* ------------------------------------------------------- the specification

\* A completeSwap call for quote q with proofs of this total is started only
\* while the balance it may credit stays within MaxBalance.
MayCredit(q, total) ==
    IF q \notin DOMAIN quotes THEN TRUE
    ELSE LET m == quotes[q].quote.from_mint
         IN  liquidity[m].balance + CreditsInProgress(m) + total <= MaxBalance

\* The broker behind its HTTP API (main.rs): liquidity arrives, the clock
\* advances, expired rows are deleted, and clients send requests that the
\* handlers serve concurrently.
Next ==
    \/ \E m \in Mints : Deposit(m, DepositAmount)
    \/ Tick
    \/ ExpiredRows(dbQuotes) # {} /\ delete_expired_quotes
    \/ \E t \in Tasks, req \in Requests :
          QuotesInProgress < MaxQuotes /\ request_quote(t, "api", req)
    \/ \E t \in Tasks : create_quote_insufficient(t)
    \/ \E t \in Tasks, keys \in KeyDraws : create_quote(t, keys[1], keys[2])
    \/ \E t \in Tasks : request_quote_save(t)
    \/ \E t \in Tasks, q \in 1..MaxQuotes : accept_quote(t, q)
    \/ \E t \in Tasks : prepare_swap(t)
    \/ \E t \in Tasks : prepare_swap_minted(t)
    \/ \E t \in Tasks : prepare_swap_record(t)
    \/ \E t \in Tasks : accept_quote_update(t)
    \/ \E t \in Tasks : accept_quote_respond(t)
    \/ \E t \in Tasks, q \in 1..MaxQuotes, proofs \in ClientProofs :
          MayCredit(q, proofs.amount) /\ complete_quote(t, q, proofs)
    \/ \E t \in Tasks : complete_swap(t)
    \/ \E t \in Tasks : complete_swap_swapped(t)
    \/ \E t \in Tasks : complete_swap_execution(t)
    \/ \E t \in Tasks : complete_swap_status(t)
    \/ \E t \in Tasks : complete_quote_update(t)
    \/ \E t \in Tasks : complete_quote_respond(t)

Spec == Init /\ [][Next]_vars

\* requestQuote alone, under each priced fee rate and with every draw of the
\* keys: the ledger is funded and clients request quotes.
InitQuotes == InitWith(ConfigsOf(PricedRates))

NextQuotes ==
    \/ \E m \in Mints : Deposit(m, LargeDeposit)
    \/ \E t \in Tasks, req \in PricedRequests :
          QuotesInProgress < MaxQuotes /\ request_quote(t, "api", req)
    \/ \E t \in Tasks : create_quote_insufficient(t)
    \/ \E t \in Tasks, keys \in AllKeyDraws : create_quote(t, keys[1], keys[2])
    \/ \E t \in Tasks : request_quote_save(t)

SpecQuotes == InitQuotes /\ [][NextQuotes]_vars

\* The broker as a library (lib.rs, examples/run_broker.rs): the operations
\* of the Broker are called directly, and nothing is stored.
NextBroker ==
    \/ \E m \in Mints : Deposit(m, DepositAmount)
    \/ \E t \in Tasks, req \in Requests :
          QuotesInProgress < MaxQuotes /\ request_quote(t, "lib", req)
    \/ \E t \in Tasks : create_quote_insufficient(t)
    \/ \E t \in Tasks, keys \in KeyDraws : create_quote(t, keys[1], keys[2])
    \/ \E t \in Tasks, q \in 1..MaxQuotes, pk \in PubkeyInputs \ {NoBytes} :
          broker_accept_quote(t, q, pk)
    \/ \E t \in Tasks : prepare_swap(t)
    \/ \E t \in Tasks : prepare_swap_minted(t)
    \/ \E t \in Tasks : prepare_swap_record(t)
    \/ \E t \in Tasks, q \in 1..MaxQuotes, proofs \in ClientProofs :
          MayCredit(q, proofs.amount) /\ broker_complete_swap(t, q, proofs)
    \/ \E t \in Tasks : complete_swap(t)
    \/ \E t \in Tasks : complete_swap_swapped(t)
    \/ \E t \in Tasks : complete_swap_execution(t)
    \/ \E t \in Tasks : complete_swap_status(t)

SpecBroker == Init /\ [][NextBroker]_vars

\* The Broker called directly to quote and to complete, with every draw of
\* the two random scalars of a quote.
NextKeys ==
    \/ \E m \in Mints : Deposit(m, DepositAmount)
    \/ \E t \in Tasks, req \in Requests :
          QuotesInProgress < MaxQuotes /\ request_quote(t, "lib", req)
    \/ \E t \in Tasks : create_quote_insufficient(t)
    \/ \E t \in Tasks, keys \in AllKeyDraws : create_quote(t, keys[1], keys[2])
    \/ \E t \in Tasks, q \in 1..MaxQuotes, proofs \in ClientProofs :
          MayCredit(q, proofs.amount) /\ broker_complete_swap(t, q, proofs)
    \/ \E t \in Tasks : complete_swap(t)
    \/ \E t \in Tasks : complete_swap_swapped(t)
    \/ \E t \in Tasks : complete_swap_execution(t)
    \/ \E t \in Tasks : complete_swap_status(t)

SpecKeys == Init /\ [][NextKeys]_vars

\* The keys a caller of Broker::accept_quote passes: each point, or bytes
\* that are no point.
AcceptKeys == {Point(s) : s \in Scalars} \cup {BadPubkey}

\* requestQuote and acceptQuote of the Broker, with every draw of the quote's
\* keys and every client key.
NextAccept ==
    \/ \E m \in Mints : Deposit(m, DepositAmount)
    \/ \E t \in Tasks, req \in Requests :
          QuotesInProgress < MaxQuotes /\ request_quote(t, "lib", req)
    \/ \E t \in Tasks : create_quote_insufficient(t)
    \/ \E t \in Tasks, keys \in AllKeyDraws : create_quote(t, keys[1], keys[2])
    \/ \E t \in Tasks, q \in 1..MaxQuotes, pk \in AcceptKeys :
          broker_accept_quote(t, q, pk)
    \/ \E t \in Tasks : prepare_swap(t)
    \/ \E t \in Tasks : prepare_swap_minted(t)
    \/ \E t \in Tasks : prepare_swap_record(t)

SpecAccept == Init /\ [][NextAccept]_vars

\* The Broker called directly by one client with its key, which completes
\* with proofs that carry a valid witness or do not.
NextComplete ==
    \/ \E m \in Mints : Deposit(m, DepositAmount)
    \/ \E t \in Tasks, req \in Requests :
          QuotesInProgress < MaxQuotes /\ request_quote(t, "lib", req)
    \/ \E t \in Tasks : create_quote_insufficient(t)
    \/ \E t \in Tasks, keys \in KeyDraws : create_quote(t, keys[1], keys[2])
    \/ \E t \in Tasks, q \in 1..MaxQuotes : broker_accept_quote(t, q, ClientPub)
    \/ \E t \in Tasks : prepare_swap(t)
    \/ \E t \in Tasks : prepare_swap_minted(t)
    \/ \E t \in Tasks : prepare_swap_record(t)
    \/ \E t \in Tasks, q \in 1..MaxQuotes, proofs \in AllClientProofs :
          MayCredit(q, proofs.amount) /\ broker_complete_swap(t, q, proofs)
    \/ \E t \in Tasks : complete_swap(t)
    \/ \E t \in Tasks : complete_swap_swapped(t)
    \/ \E t \in Tasks : complete_swap_execution(t)
    \/ \E t \in Tasks : complete_swap_status(t)

SpecComplete == Init /\ [][NextComplete]_vars

\* The positions of a handler at which a write to the Store is awaited.
StoreWrites == {"rq_db", "aq_upd", "aq_swap", "cq_upd", "cq_swap"}

\* A write to the Store fails (the `?` after create_quote, update_quote_status,
\* create_swap or complete_swap in api.rs): the handler returns the error.
store_write_failed(t) ==
    /\ tasks[t].pc \in StoreWrites
    /\ lastResp' = Resp(tasks[t].op, "Database")
    /\ tasks' = Return(t)
    /\ UNCHANGED <<config, now, liquidity, quotes, executions, quotesLock,
                   execLock, dbQuotes, dbSwaps, clientView>>

\* The broker behind its HTTP API with a Store whose writes may fail, and
\* without the passing of time.
NextStore ==
    \/ \E m \in Mints : Deposit(m, DepositAmount)
    \/ \E t \in Tasks, req \in Requests :
          QuotesInProgress < MaxQuotes /\ request_quote(t, "api", req)
    \/ \E t \in Tasks : create_quote_insufficient(t)
    \/ \E t \in Tasks, keys \in KeyDraws : create_quote(t, keys[1], keys[2])
    \/ \E t \in Tasks : request_quote_save(t)
    \/ \E t \in Tasks, q \in 1..MaxQuotes : accept_quote(t, q)
    \/ \E t \in Tasks : prepare_swap(t)
    \/ \E t \in Tasks : prepare_swap_minted(t)
    \/ \E t \in Tasks : prepare_swap_record(t)
    \/ \E t \in Tasks : accept_quote_update(t)
    \/ \E t \in Tasks : accept_quote_respond(t)
    \/ \E t \in Tasks, q \in 1..MaxQuotes, proofs \in ClientProofs :
          MayCredit(q, proofs.amount) /\ complete_quote(t, q, proofs)
    \/ \E t \in Tasks : complete_swap(t)
    \/ \E t \in Tasks : complete_swap_swapped(t)
    \/ \E t \in Tasks : complete_swap_execution(t)
    \/ \E t \in Tasks : complete_swap_status(t)
    \/ \E t \in Tasks : complete_quote_update(t)
    \/ \E t \in Tasks : complete_quote_respond(t)
    \/ \E t \in Tasks : store_write_failed(t)

SpecStore == Init /\ [][NextStore]_vars

\* The broker behind its HTTP API with the requests of clients alone: the
\* Store is reliable and nothing else touches it.
NextApi ==
    \/ \E m \in Mints : Deposit(m, DepositAmount)
    \/ \E t \in Tasks, req \in Requests :
          QuotesInProgress < MaxQuotes /\ request_quote(t, "api", req)
    \/ \E t \in Tasks : create_quote_insufficient(t)
    \/ \E t \in Tasks, keys \in KeyDraws : create_quote(t, keys[1], keys[2])
    \/ \E t \in Tasks : request_quote_save(t)
    \/ \E t \in Tasks, q \in 1..MaxQuotes : accept_quote(t, q)
    \/ \E t \in Tasks : prepare_swap(t)
    \/ \E t \in Tasks : prepare_swap_minted(t)
    \/ \E t \in Tasks : prepare_swap_record(t)
    \/ \E t \in Tasks : accept_quote_update(t)
    \/ \E t \in Tasks : accept_quote_respond(t)
    \/ \E t \in Tasks, q \in 1..MaxQuotes, proofs \in ClientProofs :
          MayCredit(q, proofs.amount) /\ complete_quote(t, q, proofs)
    \/ \E t \in Tasks : complete_swap(t)
    \/ \E t \in Tasks : complete_swap_swapped(t)
    \/ \E t \in Tasks : complete_swap_execution(t)
    \/ \E t \in Tasks : complete_swap_status(t)
    \/ \E t \in Tasks : complete_quote_update(t)
    \/ \E t \in Tasks : complete_quote_respond(t)

SpecApi == Init /\ [][NextApi]_vars

\* The amounts of the proofs the ledger operations are explored with, and
\* the proofs a caller may pass to remove_proofs: one proof, held by the
\* mint or not, given once or twice.
LedgerAmounts == {3, 10}
LedgerProofs == [secret : 1..(MaxProofs + 1), amount : LedgerAmounts]
ProofsToRemove ==
    {<<p>> : p \in LedgerProofs} \cup {<<p, p>> : p \in LedgerProofs}

\* LiquidityManager::add_proofs called with the proofs of a mint call (a
\* deposit, or the proofs of a completed swap).
ledger_add(m, amount) ==
    /\ Len(liquidity[m].proofs) < MaxProofs
    /\ liquidity[m].balance + amount <= MaxProofs * DepositAmount
    /\ liquidity' = add_proofs(liquidity, m, NewProofs(liquidity, m, amount))
    /\ lastResp' = NoResp
    /\ UNCHANGED <<config, now, quotes, executions, quotesLock, execLock,
                   dbQuotes, dbSwaps, tasks, clientView>>

\* LiquidityManager::remove_proofs called with any proofs.
ledger_remove(m, proofs_to_remove) ==
    /\ liquidity' = remove_proofs(liquidity, m, proofs_to_remove)
    /\ lastResp' = NoResp
    /\ UNCHANGED <<config, now, quotes, executions, quotesLock, execLock,
                   dbQuotes, dbSwaps, tasks, clientView>>

\* The LiquidityManager alone: proofs are added and removed.
NextLedger ==
    \/ \E m \in Mints, amount \in LedgerAmounts : ledger_add(m, amount)
    \/ \E m \in Mints, proofs \in ProofsToRemove : ledger_remove(m, proofs)

SpecLedger == Init /\ [][NextLedger]_vars

\* select_proofs, line 150: available.sort_by(|a, b| b.amount.cmp(&a.amount)),
\* a stable sort, largest amount first.
RECURSIVE InsertByAmount(_, _)
InsertByAmount(proof, sorted) ==
    IF sorted = <<>> THEN <<proof>>
    ELSE IF Head(sorted).amount >= proof.amount
    THEN <<Head(sorted)>> \o InsertByAmount(proof, Tail(sorted))
    ELSE <<proof>> \o sorted

RECURSIVE SortByAmountDesc(_)
SortByAmountDesc(proofs) ==
    IF proofs = <<>> THEN <<>>
    ELSE InsertByAmount(proofs[Len(proofs)],
                        SortByAmountDesc(SubSeq(proofs, 1, Len(proofs) - 1)))

\* select_proofs, lines 152-158: proofs are taken in order until the total
\* reaches the amount.
RECURSIVE TakeUntil(_, _, _)
TakeUntil(available, amount, total) ==
    IF available = <<>> \/ total >= amount THEN <<>>
    ELSE <<Head(available)>>
         \o TakeUntil(Tail(available), amount, total + Head(available).amount)

\* LiquidityManager::select_proofs: the result and, on success, the proofs
\* selected; on failure the total that was available.
select_proofs(liq, mint_url, amount) ==
    IF mint_url \notin DOMAIN liq
    THEN [res |-> "UnsupportedMint", selected |-> <<>>, available |-> 0]
    ELSE LET selected == TakeUntil(SortByAmountDesc(liq[mint_url].proofs), amount, 0)
             total == SumSeq(selected)
         IN  IF total < amount
             THEN [res |-> "InsufficientLiquidity", selected |-> <<>>,
                   available |-> total]
             ELSE [res |-> "ok", selected |-> selected, available |-> total]

\* A call of LiquidityManager::select_proofs: the ledger is read under its
\* read lock and the selection returned.
ledger_select(m, amount) ==
    /\ LET r == select_proofs(liquidity, m, amount)
       IN  lastResp' = [Resp("select_proofs", r.res) EXCEPT
                           !.rows = r.selected,
                           !.needed = amount,
                           !.available = r.available,
                           !.mint_url = m]
    /\ UNCHANGED <<config, now, liquidity, quotes, executions, quotesLock,
                   execLock, dbQuotes, dbSwaps, tasks, clientView>>

\* The amounts callers ask select_proofs for.
SelectAmounts == {3, 13, 21}

\* The ledger as proofs are added to it and selected from it.
NextSelect ==
    \/ \E m \in Mints, amount \in LedgerAmounts : ledger_add(m, amount)
    \/ \E m \in Mints \cup {"X"}, amount \in SelectAmounts :
          ledger_select(m, amount)

SpecSelect == Init /\ [][NextSelect]_vars

\* GET /liquidity (api::get_liquidity): the handler calls
\* Broker::get_liquidity_status.
get_liquidity(t) ==
    /\ tasks[t].pc = "idle"
    /\ tasks' = [tasks EXCEPT ![t] =
            [Idle EXCEPT !.op = "get_liquidity", !.via = "api",
                         !.pc = "gl_read"]]
    /\ lastResp' = NoResp
    /\ UNCHANGED <<config, now, liquidity, quotes, executions, quotesLock,
                   execLock, dbQuotes, dbSwaps, clientView>>

RECURSIVE SumBalances(_)
SumBalances(s) ==
    IF s = <<>> THEN 0 ELSE Head(s).balance + SumBalances(Tail(s))

\* Broker::get_liquidity_status: one turn of the loop over config.mints, which
\* awaits get_balance for the next mint; after the last mint the balances are
\* summed and the handler answers with the entries and their total.
get_liquidity_status(t) ==
    /\ tasks[t].pc = "gl_read"
    /\ LET mint == ConfigMints[Len(tasks[t].mint_balances) + 1]
           mint_balances ==
               Append(tasks[t].mint_balances,
                      [mint_url |-> mint, balance |-> get_balance(mint)])
       IN  IF Len(mint_balances) < Len(ConfigMints)
           THEN /\ tasks' = [tasks EXCEPT ![t].mint_balances = mint_balances]
                /\ lastResp' = NoResp
           ELSE /\ tasks' = Return(t)
                /\ lastResp' = [Resp("get_liquidity", "ok") EXCEPT
                                    !.mints = mint_balances,
                                    !.total_balance = SumBalances(mint_balances)]
    /\ UNCHANGED <<config, now, liquidity, quotes, executions, quotesLock,
                   execLock, dbQuotes, dbSwaps, clientView>>

\* The ledger as proofs are added to it, with clients asking for the
\* liquidity.
NextLiquidity ==
    \/ \E m \in Mints, amount \in LedgerAmounts : ledger_add(m, amount)
    \/ \E t \in Tasks : get_liquidity(t)
    \/ \E t \in Tasks : get_liquidity_status(t)

SpecLiquidity == Init /\ [][NextLiquidity]_vars

\* db_tests.rs, create_test_quote: a pending quote of 100 for 99, created now,
\* with the expiry the test gives it.
create_test_quote(expires_at) ==
    [amount_in |-> 100,
     amount_out |-> 99,
     fee |-> 1,
     fee_rate |-> config.fee_rate,
     source_mint |-> "A",
     target_mint |-> "B",
     broker_pubkey |-> Point(1),
     adaptor_point |-> Point(2),
     tweaked_pubkey |-> Point(0),
     status |-> "pending",
     created_at |-> now,
     expires_at |-> expires_at,
     accepted_at |-> -1,
     completed_at |-> -1,
     user_pubkey |-> ClientPub,
     error_message |-> None]

\* The expiries of the tests: in the past and in the future.
TestExpiries == {now - 1, now + 1}

\* The error messages a caller gives: none, or one.
ErrorMessages == {None, "mint unreachable"}

\* The status strings of a GET /quotes: a status, one in capitals, one that
\* names no status, or none.
StatusStrings == Status \cup {"PENDING", "done", None}

\* The limits of a GET /quotes.
Limits == -1..MaxQuotes

ListQueries == [status : StatusStrings, limit : Limits]

\* The Store alone, called as its tests and the API call it.
NextDb ==
    \/ \E id \in 1..MaxQuotes, expires_at \in TestExpiries :
          db_create_quote(id, create_test_quote(expires_at))
    \/ \E id \in 1..MaxQuotes, status \in Status, msg \in ErrorMessages :
          db_update_quote_status(id, status, msg)
    \/ delete_expired_quotes
    \/ \E query \in ListQueries : list_quotes(query)

SpecDb == Init /\ [][NextDb]_vars

\* ------------------------------------------------------------------ claims

\* The swap rows of a quote that the Store holds as completed.
CompletedSwapRows(q) ==
    {i \in 1..Len(dbSwaps) : /\ dbSwaps[i].quote_id = q
                              /\ dbSwaps[i].decrypted_signature # NoProofs}

\* The client can derive the adaptor secret of quote q from what the
\* responses gave it: one of the values is a scalar t with t*G = T.
ClientCanDerive(q) ==
    \E x \in clientView[q] :
       /\ x.kind = "scalar"
       /\ adaptor_point_from_secret(x.v) = quotes[q].quote.adaptor_point

\* C1: atomicity. Whenever completeSwap has succeeded for a quote (the broker
\* has redeemed the client's proofs and the completion was returned), the
\* client holds the adaptor secret t of the quote.
C1_Atomicity ==
    \A q \in DOMAIN clientView :
       CompletedSwapRows(q) # {} => ClientCanDerive(q)

\* Sum of f over the finite set S.
RECURSIVE SumOver(_, _)
SumOver(S, f) ==
    IF S = {} THEN 0
    ELSE LET x == CHOOSE y \in S : TRUE
         IN  f[x] + SumOver(S \ {x}, f)

\* The amount the non-terminal quotes promise on mint m.
Reserved(m) ==
    LET open == {q \in DOMAIN quotes :
                    /\ quotes[q].quote.to_mint = m
                    /\ quotes[q].quote.status \in {"pending", "accepted"}}
    IN  SumOver(open, [q \in open |-> quotes[q].quote.output_amount])

\* C2: reservation invariant. On every mint the balance covers the sum of
\* amount_out of the Pending and Accepted quotes on it: available >= 0.
C2_ReservationInvariant ==
    \A m \in Mints : liquidity[m].balance - Reserved(m) >= 0

\* The requests for to_mint m that passed the liquidity check and are about
\* to insert their quote.
Admitted(m) == {t \in Tasks : tasks[t].pc = "rq_insert" /\ tasks[t].to = m}

\* C3: concurrent requestQuote calls. While no quote has been created yet,
\* the concurrent requests admitted on a mint ask together for no more than
\* its balance (at most floor(available / amount_out) of them succeed).
C3_ConcurrentRequests ==
    \A m \in Mints :
       quotes = <<>> =>
          SumOver(Admitted(m),
                  [t \in Admitted(m) |-> output_amount(tasks[t].amount)])
             <= liquidity[m].balance

Terminal == {"completed", "failed", "expired"}

\* A step keeps the statuses monotone, in memory and in the Store.
StatusStep ==
    /\ \A q \in DOMAIN quotes :
          LET old == quotes[q].quote.status
              new == quotes'[q].quote.status
          IN  /\ old # "pending" => new # "pending"
              /\ old \in Terminal => new = old
    /\ \A q \in DOMAIN dbQuotes \cap DOMAIN dbQuotes' :
          LET old == dbQuotes[q].status
              new == dbQuotes'[q].status
          IN  /\ old # "pending" => new # "pending"
              /\ old \in Terminal => new = old

\* C4: status is monotone. In every step, in memory and in the Store, a
\* quote that has left pending does not return to pending, and a quote that
\* is completed, failed or expired keeps its status.
C4_StatusMonotone ==
    [][StatusStep]_vars

\* A quote went from pending through accepted to completed, in memory and in
\* the Store, while another request for it was still running.
C4_Witness ==
    \E q \in DOMAIN dbQuotes :
       /\ quotes[q].quote.status = "completed"
       /\ dbQuotes[q].status = "completed"
       /\ dbQuotes[q].accepted_at >= 0
       /\ \E t \in Tasks : tasks[t].q = q /\ tasks[t].pc # "idle"

\* C5: completeSwap requires Accepted. A quote is Completed only after it
\* was Accepted (its execution was recorded), and the mint is called and the
\* ledger credited only for a quote that is Accepted.
C5_CompleteRequiresAccepted ==
    /\ \A q \in DOMAIN quotes :
          quotes[q].quote.status = "completed" => q \in DOMAIN executions
    /\ \A t \in Tasks :
          tasks[t].pc = "cs_mint" =>
             quotes[tasks[t].q].quote.status \in {"accepted", "completed"}

\* The ceiling of amount * rate, the rate taken as the decimal num/den that
\* was configured, in exact arithmetic.
CeilFrac(amount, rate) == (amount * rate.num + rate.den - 1) \div rate.den

\* C6: pricing. Every quote has fee = ceil(amount_in * fee_rate), amount_out
\* = amount_in - fee, and the configured fee rate.
C6_Pricing ==
    \A q \in DOMAIN quotes :
       LET quote == quotes[q].quote
       IN  /\ quote.fee = CeilFrac(quote.input_amount, config.fee_rate)
           /\ quote.output_amount = quote.input_amount - quote.fee
           /\ quote.fee_rate = config.fee_rate

\* C7: no quote is created whose amount_out is 0.
C7_PositiveOutput ==
    \A q \in DOMAIN quotes : quotes[q].quote.output_amount > 0

\* A step keeps the amounts of every quote and of every stored record.
AmountsStep ==
    /\ \A q \in DOMAIN quotes :
          /\ quotes'[q].quote.input_amount = quotes[q].quote.input_amount
          /\ quotes'[q].quote.fee = quotes[q].quote.fee
          /\ quotes'[q].quote.output_amount = quotes[q].quote.output_amount
    /\ \A q \in DOMAIN dbQuotes \cap DOMAIN dbQuotes' :
          /\ dbQuotes'[q].amount_in = dbQuotes[q].amount_in
          /\ dbQuotes'[q].fee = dbQuotes[q].fee
          /\ dbQuotes'[q].amount_out = dbQuotes[q].amount_out

\* C8: amount_in, fee and amount_out of a quote are fixed at creation. No
\* step changes them, in memory or in the record the Store holds.
C8_AmountsFixed ==
    [][AmountsStep]_vars

\* A quote of 8 with fee 1 was accepted and completed, and the Store holds
\* it as completed with the amounts it was created with.
C8_Witness ==
    \E q \in DOMAIN dbQuotes :
       /\ dbQuotes[q].status = "completed"
       /\ dbQuotes[q].completed_at >= 0
       /\ CompletedSwapRows(q) # {}
       /\ <<dbQuotes[q].amount_in, dbQuotes[q].fee, dbQuotes[q].amount_out>>
             = <<8, 1, 7>>
       /\ <<quotes[q].quote.input_amount, quotes[q].quote.fee,
             quotes[q].quote.output_amount>> = <<8, 1, 7>>

\* C9: ledger effect of a completed swap. When the only quote is completed
\* and nothing is running, the balance of its to_mint is amount_out below,
\* and the balance of its from_mint amount_in above, what was deposited.
C9_LedgerEffect ==
    (/\ Len(quotes) = 1
     /\ CompletedSwapRows(1) # {}
     /\ \A t \in Tasks : tasks[t].pc = "idle")
    => \E before_from, before_to \in {0, DepositAmount} :
          /\ liquidity[quotes[1].quote.from_mint].balance
                = before_from + quotes[1].quote.input_amount
          /\ liquidity[quotes[1].quote.to_mint].balance
                = before_to - quotes[1].quote.output_amount

\* C10: expiry. A cycle of the reaper (delete_expired_quotes) leaves no
\* quote Pending or Accepted whose expires_at has passed: each is Expired.
C10_Expiry ==
    [][delete_expired_quotes =>
         \A q \in DOMAIN quotes :
            (/\ quotes[q].quote.expires_at < now
             /\ quotes[q].quote.status \in {"pending", "accepted"})
            => quotes'[q].quote.status = "expired"]_vars

\* The tasks whose acceptQuote or completeSwap is about to look up a quote
\* that is past its expires_at and otherwise in the status the call needs.
CallsOnExpired ==
    {t \in Tasks :
        /\ tasks[t].pc \in {"ps_lock", "cs_lock"}
        /\ tasks[t].q \in DOMAIN quotes
        /\ quotes[tasks[t].q].quote.expires_at < now
        /\ quotes[tasks[t].q].quote.status =
              (IF tasks[t].pc = "ps_lock" THEN "pending" ELSE "accepted")}

\* The step of such a call rejects it with QuoteExpired and changes neither
\* the quotes nor the ledger.
ExpiredStep ==
    \A t \in CallsOnExpired :
       tasks'[t].pc # tasks[t].pc =>
          /\ tasks'[t].pc = "idle"
          /\ lastResp'.res = "QuoteExpired"
          /\ UNCHANGED <<quotes, liquidity>>

\* C11: an expired quote can be neither accepted nor completed. acceptQuote
\* or completeSwap invoked after expires_at is rejected with QuoteExpired,
\* asks no mint for anything and leaves the ledger unchanged.
C11_ExpiredRejected ==
    [][ExpiredStep]_vars

\* The private scalars of quote q, as bytes.
PrivateScalars(q) ==
    {scalar_to_bytes(quotes[q].broker_swap_key),
     scalar_to_bytes(quotes[q].adaptor_secret)}

\* The byte values the Store holds for quote q.
StoredValues(q) ==
    (IF q \in DOMAIN dbQuotes
     THEN {dbQuotes[q].broker_pubkey, dbQuotes[q].adaptor_point,
           dbQuotes[q].tweaked_pubkey, dbQuotes[q].user_pubkey}
     ELSE {})
    \cup UNION {{dbSwaps[i].encrypted_signature, dbSwaps[i].adaptor_secret} :
                   i \in {j \in 1..Len(dbSwaps) : dbSwaps[j].quote_id = q}}

\* C12: secret confinement. Neither broker_key nor adaptor_secret of a quote
\* is among the values an operation returned for it, or among the values
\* the Store holds for it.
C12_SecretConfinement ==
    \A q \in DOMAIN quotes :
       /\ q \in DOMAIN clientView => clientView[q] \cap PrivateScalars(q) = {}
       /\ StoredValues(q) \cap PrivateScalars(q) = {}

\* The outcome of the requestQuote step of task t: the error it returned,
\* InsufficientLiquidity when the error is being built, or "ok" when the
\* request goes on to create its quote.
RequestOutcome(t) ==
    IF lastResp'.res # None THEN lastResp'.res
    ELSE IF tasks'[t].pc = "rq_insuff" THEN "InsufficientLiquidity"
    ELSE "ok"

\* The outcomes the first failing pre-condition of a request allows, the
\* pre-conditions taken in the order (1) amount_in in range, (2) mints
\* configured and distinct, (3) amount_out > 0, (4) liquidity on to_mint.
FirstFailure(req) ==
    IF req.amount < config.min_swap_amount THEN {"AmountTooLow"}
    ELSE IF req.amount > config.max_swap_amount THEN {"AmountTooHigh"}
    ELSE IF req.from \notin Mints \/ req.to \notin Mints
    THEN IF req.from = req.to THEN {"UnsupportedMint", "SameMintSwap"}
         ELSE {"UnsupportedMint"}
    ELSE IF req.from = req.to THEN {"SameMintSwap"}
    ELSE IF output_amount(req.amount) = 0
    THEN {"AmountTooLow", "InvalidSwapRequest", "InsufficientLiquidity"}
    ELSE IF get_balance(req.to) < output_amount(req.amount)
    THEN {"InsufficientLiquidity"}
    ELSE {"ok"}

\* The requests of every specification.
AllRequests == Requests \cup PricedRequests

\* Every requestQuote step has the outcome of the first failing pre-condition.
OrderStep ==
    \A t \in Tasks, req \in AllRequests, via \in {"api", "lib"} :
       request_quote(t, via, req) => RequestOutcome(t) \in FirstFailure(req)

\* C13: requestQuote checks its pre-conditions in a fixed order, amount_in in
\* range, then the mints, then amount_out > 0, then the liquidity of to_mint,
\* and returns the error of the first one that fails.
C13_CheckOrder ==
    [][OrderStep]_vars

RequestErrors ==
    {"AmountTooLow", "AmountTooHigh", "UnsupportedMint", "SameMintSwap",
     "InsufficientLiquidity"}

\* A step of a requestQuote that is rejected: the step that returns the
\* error, or the step that finds the liquidity missing.
RejectingStep ==
    \/ lastResp'.op = "request_quote" /\ lastResp'.res \in RequestErrors
    \/ \E t \in Tasks : tasks[t].pc = "idle" /\ tasks'[t].pc = "rq_insuff"

RejectedRequestStep ==
    RejectingStep => UNCHANGED <<quotes, dbQuotes, dbSwaps, liquidity>>

\* C14: a rejected requestQuote has no effect. The steps of a requestQuote
\* that returns AmountTooLow, AmountTooHigh, UnsupportedMint, SameMintSwap
\* or InsufficientLiquidity add no quote to the quotes or to the Store and
\* leave the ledger of every mint unchanged.
C14_RejectedNoEffect ==
    [][RejectedRequestStep]_vars

\* A request was rejected for missing liquidity while a quote was held in
\* memory and in the Store and mint B was funded.
C14_Witness ==
    /\ lastResp.op = "request_quote"
    /\ lastResp.res = "InsufficientLiquidity"
    /\ Len(quotes) = 1
    /\ DOMAIN dbQuotes = {1}
    /\ liquidity["B"].balance = DepositAmount

\* C15: every InsufficientLiquidity error of requestQuote has needed equal
\* to amount_out (7 for the request of 8) and available equal to the balance
\* the decision was made on, so that available < needed, also when deposits
\* run concurrently with the request.
C15_InsufficientLiquidity ==
    lastResp.res = "InsufficientLiquidity" =>
       /\ lastResp.needed = output_amount(8)
       /\ lastResp.available < lastResp.needed

\* A step of an acceptQuote for a quote that is unknown or not Pending
\* rejects the call and changes nothing: the handler's check of the stored
\* record (NotFound, BadRequest) and prepare_swap's check of the quote
\* (QuoteNotFound, InvalidSwapRequest). Only a Pending quote reaches the mint.
AcceptRejectStep ==
    /\ \A t \in Tasks, q \in 1..MaxQuotes :
          accept_quote(t, q) =>
             /\ UNCHANGED <<quotes, executions, liquidity, dbQuotes, dbSwaps>>
             /\ q \notin DOMAIN quotes => lastResp'.res = "NotFound"
             /\ (q \in DOMAIN dbQuotes /\ dbQuotes[q].status # "pending")
                   => lastResp'.res = "BadRequest"
    /\ \A t \in Tasks :
          (tasks[t].pc = "ps_lock" /\ tasks'[t].pc # "ps_lock") =>
             LET q == tasks[t].q
                 rejected(err) ==
                     /\ lastResp'.res = err
                     /\ tasks'[t].pc = "idle"
                     /\ UNCHANGED <<quotes, executions, liquidity, dbQuotes,
                                    dbSwaps>>
             IN  IF q \notin DOMAIN quotes THEN rejected("QuoteNotFound")
                 ELSE IF quotes[q].quote.status # "pending"
                 THEN rejected("InvalidSwapRequest")
                 ELSE TRUE
    /\ \A t \in Tasks :
          (tasks[t].pc # "ps_mint" /\ tasks'[t].pc = "ps_mint") =>
             /\ tasks[t].q \in DOMAIN quotes
             /\ quotes[tasks[t].q].quote.status = "pending"

\* C16: acceptQuote succeeds only for an existing quote in status Pending.
\* For an unknown quote_id it returns a not-found error and for a quote that
\* is Accepted, Completed, Failed or Expired an invalid-state error; in both
\* cases no mint is asked for tokens and the quote, the executions and the
\* ledger are unchanged.
C16_AcceptOnlyPending ==
    [][AcceptRejectStep]_vars

\* A second accept of a quote that is Accepted, with its execution recorded,
\* was rejected by prepare_swap.
C16_Witness ==
    /\ lastResp.op = "accept_quote"
    /\ lastResp.res = "InvalidSwapRequest"
    /\ \E q \in DOMAIN executions : quotes[q].quote.status = "accepted"

\* The step in which the minting of the locked tokens fails leaves the quote
\* Failed.
MintFailureStep ==
    \A t \in Tasks :
       (/\ tasks[t].pc = "ps_mint"
        /\ lastResp'.op = "accept_quote"
        /\ lastResp'.res = "Cdk")
       => quotes'[tasks[t].q].quote.status = "failed"

\* C17: if minting the locked tokens fails during acceptQuote, the quote's
\* status becomes Failed; it does not remain Pending.
C17_MintFailureFails ==
    [][MintFailureStep]_vars

\* The accept of a Pending quote that was requested without a client key is
\* not refused: the key comes with the accept. The accept of a quote that
\* was requested with a key goes to the mint with that key only.
KeyBindingStep ==
    /\ \A t \in Tasks, q \in DOMAIN dbQuotes :
          (/\ accept_quote(t, q)
           /\ dbQuotes[q].status = "pending"
           /\ dbQuotes[q].user_pubkey = NoBytes)
          => lastResp'.res # "BadRequest"
    /\ \A t \in Tasks :
          (/\ tasks[t].pc = "ps_lock"
           /\ tasks'[t].pc = "ps_mint"
           /\ tasks[t].q \in DOMAIN dbQuotes
           /\ dbQuotes[tasks[t].q].user_pubkey # NoBytes)
          => tasks[t].pk = dbQuotes[tasks[t].q].user_pubkey

\* C18: client key binding at accept. A quote requested without a
\* client_pub can be accepted by supplying the key at acceptQuote, and a
\* quote requested with a client_pub is accepted only with that same key.
C18_ClientKeyBinding ==
    [][KeyBindingStep]_vars

\* The proofs acceptQuote owes for the quote of task t: amount_out, on
\* to_mint, locked to the task's client key plus the adaptor point of the
\* quote.
OwedProofs(t) ==
    LET quote == quotes[tasks[t].q].quote
    IN  [amount |-> quote.output_amount,
         lock |-> Point(tasks[t].pk.v + quote.adaptor_point.v),
         mint |-> quote.to_mint]

\* The step in which the mint returns the locked tokens makes the quote
\* Accepted with the owed proofs, and the step in which acceptQuote returns
\* successfully returns them, for a quote whose adaptor point the caller was
\* given.
AcceptSuccessStep ==
    \A t \in Tasks :
       /\ (tasks[t].pc = "ps_mint" /\ tasks'[t].pc = "ps_exec") =>
             /\ quotes'[tasks[t].q].quote.status = "accepted"
             /\ tasks'[t].proofs = OwedProofs(t)
       /\ (/\ tasks[t].op = "accept_quote"
           /\ tasks'[t].pc = "idle"
           /\ lastResp'.res = "ok") =>
             /\ lastResp'.proofs = OwedProofs(t)
             /\ quotes'[tasks[t].q].quote.status \in {"accepted", "completed"}
             /\ tasks[t].q \in DOMAIN executions'
             /\ quotes[tasks[t].q].quote.adaptor_point \in clientView'[tasks[t].q]

\* C19: after a successful acceptQuote for quote Q with key client_pub, the
\* quote is Accepted and the proofs returned total exactly Q.amount_out on
\* Q.to_mint and are locked to the single key client_pub + Q.adaptor_point,
\* the adaptor point that was returned in the quote.
C19_AcceptResult ==
    [][AcceptSuccessStep]_vars

\* An accept with the client key 1*G returned proofs of 7 on mint B for a
\* quote whose adaptor point is 1*G, locked to 2*G.
C19_Witness ==
    /\ lastResp.op = "accept_quote"
    /\ lastResp.res = "ok"
    /\ lastResp.proofs = [amount |-> 7, lock |-> Point(2), mint |-> "B"]
    /\ \E q \in DOMAIN executions :
          /\ quotes[q].quote.adaptor_point = Point(1)
          /\ quotes[q].quote.broker_public_key = Point(2)
          /\ quotes[q].quote.status = "accepted"
          /\ executions[q].broker_tokens = lastResp.proofs

\* The step of a completeSwap on an Accepted quote whose proofs carry no
\* valid witness under the quote's tweaked key rejects the call with
\* InvalidWitness: no mint swap is attempted, and the quote and the ledger
\* stay as they are.
InvalidWitnessStep ==
    \A t \in Tasks :
       (/\ tasks[t].pc = "cs_lock"
        /\ tasks'[t].pc # "cs_lock"
        /\ tasks[t].q \in DOMAIN quotes
        /\ quotes[tasks[t].q].quote.status = "accepted"
        /\ tasks[t].proofs.lock # quotes[tasks[t].q].quote.tweaked_pubkey)
       => /\ tasks'[t].pc = "idle"
          /\ lastResp'.res = "InvalidWitness"
          /\ UNCHANGED <<quotes, liquidity>>

\* C20: a completeSwap whose proofs do not carry a valid witness under
\* tweaked_broker_pub is rejected with InvalidWitness before any mint swap
\* is attempted, and leaves the quote Accepted and the ledger unchanged.
C20_InvalidWitness ==
    [][InvalidWitnessStep]_vars

\* The step of a completeSwap on an Accepted quote whose proofs do not sum
\* to the quote's amount_in rejects the call with AmountMismatch: the quote
\* is not completed and the ledger is not credited.
AmountMismatchStep ==
    \A t \in Tasks :
       (/\ tasks[t].pc = "cs_lock"
        /\ tasks'[t].pc # "cs_lock"
        /\ tasks[t].q \in DOMAIN quotes
        /\ quotes[tasks[t].q].quote.status = "accepted"
        /\ tasks[t].proofs.amount # quotes[tasks[t].q].quote.input_amount)
       => /\ tasks'[t].pc = "idle"
          /\ lastResp'.res = "AmountMismatch"
          /\ UNCHANGED <<quotes, liquidity>>

\* C21: completeSwap accepts only proofs whose amounts sum to exactly the
\* quote's amount_in; with any other total it returns AmountMismatch, the
\* quote is not Completed and the ledger of from_mint is not credited.
C21_AmountMismatch ==
    [][AmountMismatchStep]_vars

\* The tasks with a mint call or a Store call in flight.
InExternalCall ==
    {t \in Tasks : tasks[t].pc \in {"ps_mint", "cs_mint", "rq_db", "aq_upd",
                                     "aq_swap", "cq_upd", "cq_swap"}}

\* C22: lock discipline. No task holds the lock of the quotes, or the lock
\* of the executions, while a mint call or a Store call of it is in flight.
C22_LockDiscipline ==
    \A t \in InExternalCall :
       /\ t \notin quotesLock.writer
       /\ t \notin quotesLock.readers
       /\ t \notin execLock

\* C24: ledger consistency. After any sequence of ledger operations, for
\* every mint the recorded balance is non-negative and equals the sum of the
\* amounts of the proofs held for that mint.
C24_LedgerConsistency ==
    \A m \in Mints :
       /\ liquidity[m].balance >= 0
       /\ liquidity[m].balance = SumSeq(liquidity[m].proofs)

\* C25: the Store mirrors the quotes. Whenever no request is in flight,
\* every quote held in memory has a Store record with the same status, also
\* after requests that returned an error because a Store write or a mint
\* call failed.
C25_StoreMirrors ==
    (\A t \in Tasks : tasks[t].pc = "idle") =>
       \A q \in DOMAIN quotes :
          /\ q \in DOMAIN dbQuotes
          /\ dbQuotes[q].status = quotes[q].quote.status

\* C26: after a successful acceptQuote the swap record of the quote in the
\* Store contains the broker-locked proofs that were returned to the client
\* (those of the quote's execution), and still contains them after the quote
\* is completed.
C26_SwapRecordProofs ==
    \A i \in DOMAIN dbSwaps :
       dbSwaps[i].target_proofs = executions[dbSwaps[i].quote_id].broker_tokens

\* The amounts, mints and keys of a row of the quotes table.
QuoteTerms(row) ==
    <<row.amount_in, row.amount_out, row.fee, row.fee_rate, row.source_mint,
      row.target_mint, row.broker_pubkey, row.adaptor_point,
      row.tweaked_pubkey, row.user_pubkey>>

UpdateStatusStep ==
    \A id \in 1..MaxQuotes, s \in Status, msg \in ErrorMessages :
       (id \in DOMAIN dbQuotes /\ db_update_quote_status(id, s, msg)) =>
          /\ DOMAIN dbQuotes' = DOMAIN dbQuotes
          /\ dbQuotes'[id].status = s
          /\ s = "accepted" => dbQuotes'[id].accepted_at = now
          /\ s = "completed" => dbQuotes'[id].completed_at = now
          /\ s \in {"failed", "expired"} => dbQuotes'[id].error_message = msg
          /\ QuoteTerms(dbQuotes'[id]) = QuoteTerms(dbQuotes[id])
          /\ \A other \in DOMAIN dbQuotes \ {id} :
                dbQuotes'[other] = dbQuotes[other]

\* C27: update_quote_status(id, s) sets the stored status of quote id to s,
\* stamps accepted_at when s is accepted and completed_at when s is
\* completed, records the given error message when s is failed or expired,
\* and leaves the amounts, mints and keys of the quote and every other quote
\* unchanged.
C27_UpdateQuoteStatus == [][UpdateStatusStep]_vars

\* One quote was accepted and then completed, another failed with a message.
C27_Witness ==
    \E id, other \in DOMAIN dbQuotes :
       /\ dbQuotes[id].status = "completed"
       /\ dbQuotes[id].accepted_at = now
       /\ dbQuotes[id].completed_at = now
       /\ dbQuotes[other].status = "failed"
       /\ dbQuotes[other].error_message # None
       /\ lastResp.op = "update_quote_status"

DeleteExpiredStep ==
    delete_expired_quotes =>
       LET removed == DOMAIN dbQuotes \ DOMAIN dbQuotes'
       IN  /\ DOMAIN dbQuotes' \subseteq DOMAIN dbQuotes
           /\ \A id \in DOMAIN dbQuotes :
                 id \in removed <=> /\ dbQuotes[id].status = "pending"
                                    /\ dbQuotes[id].expires_at < now
           /\ lastResp'.count = Cardinality(removed)
           /\ \A id \in DOMAIN dbQuotes' : dbQuotes'[id] = dbQuotes[id]

\* C28: delete_expired_quotes removes exactly the quotes stored as pending
\* whose expires_at is earlier than now, returns the number removed, and
\* leaves every other quote in the Store as it was.
C28_DeleteExpired == [][DeleteExpiredStep]_vars

\* A deletion removed one quote and left one that is past its expiry but no
\* longer pending.
C28_Witness ==
    /\ lastResp.op = "delete_expired_quotes"
    /\ lastResp.count = 1
    /\ \E id \in DOMAIN dbQuotes :
          dbQuotes[id].status # "pending" /\ dbQuotes[id].expires_at < now

\* The status a status string names, whatever its case.
NamedStatus(s) == IF s = "PENDING" THEN "pending" ELSE s

ListQuotesStep ==
    \A query \in ListQueries :
       list_quotes(query) =>
          LET rows == lastResp'.rows
              matching == IF query.status = None THEN DOMAIN dbQuotes
                          ELSE {id \in DOMAIN dbQuotes :
                                  dbQuotes[id].status = NamedStatus(query.status)}
          IN  /\ \A i \in DOMAIN rows : rows[i] \in matching
              /\ rows # <<>> => Len(rows) <= query.limit
              /\ Cardinality(matching) <= query.limit =>
                    matching = {rows[i] : i \in DOMAIN rows}

\* C29: listQuotes(status, limit) returns only quotes whose stored status is
\* the given one (all quotes when none is given), never more than limit of
\* them, and every stored quote of that status when there are at most limit.
C29_ListQuotes == [][ListQuotesStep]_vars

\* The same for the queries that name a status or none, with a limit that is
\* not negative.
ListQuotesValidStep ==
    \A query \in ListQueries :
       (/\ query.limit >= 0
        /\ query.status \in Status \cup {"PENDING", None}
        /\ list_quotes(query)) =>
          LET rows == lastResp'.rows
              matching == IF query.status = None THEN DOMAIN dbQuotes
                          ELSE {id \in DOMAIN dbQuotes :
                                  dbQuotes[id].status = NamedStatus(query.status)}
          IN  /\ \A i \in DOMAIN rows : rows[i] \in matching
              /\ Len(rows) <= query.limit
              /\ Cardinality(matching) <= query.limit =>
                    matching = {rows[i] : i \in DOMAIN rows}

C29_ListQuotesValid == [][ListQuotesValidStep]_vars

RECURSIVE TotalOf(_, _)
TotalOf(entries, n) ==
    IF n = 0 THEN 0 ELSE entries[n].balance + TotalOf(entries, n - 1)

GetLiquidityStep ==
    \A t \in Tasks :
       get_liquidity_status(t) =>
          LET i == Len(tasks[t].mint_balances) + 1
              last == i = Len(ConfigMints)
              report == IF last THEN lastResp'.mints
                        ELSE tasks'[t].mint_balances
          IN  /\ Len(report) = i
              /\ \A j \in 1..(i - 1) : report[j] = tasks[t].mint_balances[j]
              /\ report[i].mint_url = ConfigMints[i]
              /\ report[i].balance = liquidity[ConfigMints[i]].balance
              /\ (\A m \in Mints : /\ liquidity[m].balance = 0
                                    /\ liquidity[m].proofs = <<>>)
                    => report[i].balance = 0
              /\ last =>
                    /\ lastResp'.op = "get_liquidity"
                    /\ \A j \in 1..Len(ConfigMints) :
                          report[j].mint_url = ConfigMints[j]
                    /\ lastResp'.total_balance = TotalOf(report, Len(report))
                    /\ (\A j \in DOMAIN report : report[j].balance = 0)
                          => lastResp'.total_balance = 0

\* C30: getLiquidity reports one entry per configured mint, each carrying the
\* balance the ledger holds for that mint when it is read, and a total equal
\* to the sum of the entries; on a ledger with no proofs every balance and
\* the total are 0.
C30_GetLiquidity == [][GetLiquidityStep]_vars

\* A report of two different balances, none of them zero.
C30_Witness ==
    /\ lastResp.op = "get_liquidity"
    /\ Len(lastResp.mints) = Len(ConfigMints)
    /\ lastResp.mints[1].balance > 0
    /\ lastResp.mints[2].balance > lastResp.mints[1].balance
    /\ lastResp.total_balance > lastResp.mints[2].balance

\* A report of a ledger that holds nothing.
C30_WitnessNew ==
    /\ lastResp.op = "get_liquidity"
    /\ lastResp.total_balance = 0
    /\ \A m \in Mints : liquidity[m].proofs = <<>>

\* The sum of two points of the group.
PointSum(p, q) == [kind |-> "point", v |-> (p.v + q.v) % GroupOrder]

\* C31: for every created quote adaptor_point = adaptor_secret*G, broker_pub =
\* broker_key*G and tweaked_pubkey = broker_pub + adaptor_point, and the
\* scalar broker_key + adaptor_secret that completeSwap computes has the
\* quote's tweaked_pubkey as its public point.
C31_KeyRelations ==
    /\ \A q \in DOMAIN quotes :
          /\ quotes[q].quote.adaptor_point = Point(quotes[q].adaptor_secret)
          /\ quotes[q].quote.broker_public_key = Point(quotes[q].broker_swap_key)
          /\ quotes[q].quote.tweaked_pubkey =
                PointSum(quotes[q].quote.broker_public_key,
                         quotes[q].quote.adaptor_point)
    /\ \A t \in Tasks :
          tasks[t].pc \in {"cs_mint", "cs_exec", "cs_write"} =>
             Point(tasks[t].broker_with_adaptor) =
                quotes[tasks[t].q].quote.tweaked_pubkey

\* completeSwap has computed the spending scalar of a quote, and it is not
\* zero.
C31_Witness ==
    \E t \in Tasks :
       /\ tasks[t].pc = "cs_mint"
       /\ tasks[t].broker_with_adaptor # 0
       /\ quotes[tasks[t].q].broker_swap_key = 2
       /\ quotes[tasks[t].q].adaptor_secret = 2

\* C32: for every quote created, broker_key + adaptor_secret is not zero in
\* the group of scalars (tweaked_pubkey is not the point at infinity),
\* whatever the random draws.
C32_NonZeroKeySum ==
    \A q \in DOMAIN quotes :
       /\ (quotes[q].broker_swap_key + quotes[q].adaptor_secret) % GroupOrder # 0
       /\ quotes[q].quote.tweaked_pubkey # Point(0)

\* The step in which a completeSwap call gives up on the from_mint swap of
\* witnessed proofs (the call to the mint failed) leaves the quote Failed.
SwapFailureStep ==
    \A t \in Tasks :
       (/\ tasks[t].pc = "cs_mint"
        /\ tasks[t].proofs.lock # NoBytes
        /\ lastResp'.op = "complete_swap"
        /\ lastResp'.res = "Cdk")
       => quotes'[tasks[t].q].quote.status = "failed"

\* C33: when the from_mint swap call of completeSwap fails with a network
\* error the call is retried, at most five attempts in all, and when the
\* attempts are exhausted the quote is marked Failed; it does not stay
\* Accepted.
C33_SwapFailureFails ==
    [][SwapFailureStep]_vars

\* The secrets of a sequence of proofs.
SecretsOf(proofs) == {proofs[i].secret : i \in DOMAIN proofs}

SelectStep ==
    \A m \in Mints, amount \in SelectAmounts :
       ledger_select(m, amount) =>
          IF lastResp'.res = "ok"
          THEN /\ SumSeq(lastResp'.rows) >= amount
               /\ \A i \in DOMAIN lastResp'.rows :
                     \E j \in DOMAIN liquidity[m].proofs :
                        liquidity[m].proofs[j] = lastResp'.rows[i]
               /\ (/\ lastResp.op = "select_proofs"
                   /\ lastResp.res = "ok"
                   /\ lastResp.mint_url = m)
                  => SecretsOf(lastResp.rows) \cap SecretsOf(lastResp'.rows) = {}
          ELSE /\ lastResp'.res = "InsufficientLiquidity"
               /\ liquidity' = liquidity

\* C34: a successful select_proofs(mint, amount) returns proofs held for the
\* mint that total at least amount and holds them: a second selection on the
\* same mint, with no release in between, returns none of them; a failed
\* selection returns InsufficientLiquidity and changes nothing.
C34_SelectAndHold == [][SelectStep]_vars

\* The selection alone, without the hold: what is returned is held by the
\* mint and totals at least the amount, and a failure changes nothing.
SelectOnlyStep ==
    \A m \in Mints, amount \in SelectAmounts :
       ledger_select(m, amount) =>
          IF lastResp'.res = "ok"
          THEN /\ SumSeq(lastResp'.rows) >= amount
               /\ \A i \in DOMAIN lastResp'.rows :
                     \E j \in DOMAIN liquidity[m].proofs :
                        liquidity[m].proofs[j] = lastResp'.rows[i]
          ELSE /\ lastResp'.res = "InsufficientLiquidity"
               /\ liquidity' = liquidity

C34_SelectOnly == [][SelectOnlyStep]_vars

\* The tasks other than t that have credited the ledger for the quote of t
\* and have not yet recorded the result.
EarlierCredits(t) ==
    {u \in Tasks \ {t} : /\ tasks[u].q = tasks[t].q
                          /\ tasks[u].pc \in {"cs_exec", "cs_write"}}

\* A completeSwap call credits the ledger only if no other call has credited
\* it for the same quote, and a call that finds the quote already Completed
\* when it comes to record its result reports RaceLost and leaves the quote.
RaceStep ==
    \A t \in Tasks :
       /\ (tasks[t].pc = "cs_mint" /\ tasks'[t].pc = "cs_exec") =>
             /\ EarlierCredits(t) = {}
             /\ quotes[tasks[t].q].quote.status # "completed"
       /\ (tasks[t].pc = "cs_write" /\ tasks'[t].pc # "cs_write"
           /\ quotes[tasks[t].q].quote.status = "completed") =>
             /\ lastResp'.res = "RaceLost"
             /\ quotes' = quotes

\* C35: if the status of a quote changes between the two lock acquisitions
\* of completeSwap, the later task does not apply its transition and reports
\* RaceLost; of two concurrent completeSwap requests for one quote at most
\* one marks it Completed and credits the from_mint ledger.
C35_RaceLost == [][RaceStep]_vars

\* Task t holds the executions lock and waits for the write lock of quotes,
\* which it cannot get while u holds a lock of quotes; u waits for the
\* executions lock. Neither can take another step.
CircularWait(t, u) ==
    /\ t # u
    /\ tasks[t].pc = "cs_write"
    /\ execLock = {t}
    /\ tasks[u].pc \in {"ps_exec", "cs_exec"}
    /\ u \in quotesLock.readers \cup quotesLock.writer
    /\ ~ENABLED complete_swap_status(t)
    /\ ~ENABLED prepare_swap_record(u)
    /\ ~ENABLED complete_swap_execution(u)

\* C36: deadlock freedom. Whatever acceptQuote and completeSwap calls run
\* together, no state is reached in which one task holds the executions lock
\* and waits for the quotes lock while another holds a quotes lock and waits
\* for the executions lock, so that every call returns.
C36_NoDeadlock ==
    \A t, u \in Tasks : ~CircularWait(t, u)

\* A call mints only for a Pending quote for which no other call is at the
\* mint or has minted, the quote is Accepted afterwards and never Pending
\* again, and a call that finds the quote not Pending is rejected without
\* going to the mint.
MintOnceStep ==
    /\ \A t \in Tasks :
          (tasks[t].pc = "ps_mint" /\ tasks'[t].pc = "ps_exec") =>
             /\ quotes[tasks[t].q].quote.status = "pending"
             /\ quotes'[tasks[t].q].quote.status = "accepted"
             /\ tasks[t].q \notin DOMAIN executions
             /\ \A u \in Tasks \ {t} :
                   tasks[u].q = tasks[t].q =>
                      tasks[u].pc \notin {"ps_mint", "ps_exec"}
    /\ \A t \in Tasks :
          (/\ tasks[t].pc = "ps_lock"
           /\ tasks'[t].pc # "ps_lock"
           /\ tasks[t].q \in DOMAIN quotes
           /\ quotes[tasks[t].q].quote.status # "pending") =>
             /\ tasks'[t].pc = "idle"
             /\ lastResp'.res = "InvalidSwapRequest"
    /\ \A q \in DOMAIN quotes :
          quotes[q].quote.status # "pending" =>
             quotes'[q].quote.status # "pending"

\* C37: for every quote the broker-locked tokens are minted at most once:
\* of concurrent acceptQuote calls for one quote at most one reaches the mint
\* and succeeds, and every other call is rejected because the quote is no
\* longer Pending.
C37_MintOnce == [][MintOnceStep]_vars

\* Two requests to accept one quote ran together: one is rejected while the
\* other, which minted, has not yet answered.
C37_Witness ==
    /\ lastResp.op = "accept_quote"
    /\ lastResp.res = "InvalidSwapRequest"
    /\ \E t \in Tasks :
          /\ tasks[t].op = "accept_quote"
          /\ tasks[t].pc \in {"aq_upd", "aq_swap"}
          /\ quotes[tasks[t].q].quote.status = "accepted"

\* The order of the steps of one completeSwap call, and what a failed swap
\* at the mint leaves behind.
CompleteOrderStep ==
    /\ \A t \in Tasks :
          LET from_mint == quotes[tasks[t].q].quote.from_mint
          IN  /\ (tasks[t].pc = "cs_mint" /\ tasks'[t].pc = "cs_exec") =>
                    /\ liquidity'[from_mint].balance =
                          liquidity[from_mint].balance + tasks[t].amount
                    /\ Len(liquidity'[from_mint].proofs) =
                          Len(liquidity[from_mint].proofs) + 1
              /\ (tasks[t].pc = "cs_mint"
                  /\ tasks'[t].pc \notin {"cs_mint", "cs_exec"}) =>
                    /\ tasks'[t].pc = "idle"
                    /\ lastResp'.res = "Cdk"
                    /\ quotes' = quotes
                    /\ executions' = executions
                    /\ liquidity' = liquidity
              /\ (tasks[t].pc # "cs_exec" /\ tasks'[t].pc = "cs_exec") =>
                    tasks[t].pc = "cs_mint"
              /\ (tasks[t].pc # "cs_write" /\ tasks'[t].pc = "cs_write") =>
                    tasks[t].pc = "cs_exec"
    /\ \A q \in DOMAIN quotes :
          (/\ quotes[q].quote.status # "completed"
           /\ quotes'[q].quote.status = "completed") =>
             \E t \in Tasks : /\ tasks[t].pc = "cs_write"
                              /\ tasks[t].q = q
                              /\ tasks'[t].pc # "cs_write"
    /\ \A q \in DOMAIN executions :
          (/\ ~executions[q].client_swap_complete
           /\ executions'[q].client_swap_complete) =>
             \E t \in Tasks : /\ tasks[t].pc = "cs_exec"
                              /\ tasks[t].q = q
                              /\ tasks'[t].pc = "cs_write"

\* C38: inside completeSwap a quote becomes Completed only after the
\* from_mint swap has succeeded and its proofs have been added to the
\* from_mint ledger; if the swap fails the status is not changed to Completed
\* and the execution record is not marked complete.
C38_CompleteOrder == [][CompleteOrderStep]_vars

\* A quote was completed: its execution is marked complete and the from_mint
\* ledger holds the proofs of the swap.
C38_Witness ==
    \E q \in DOMAIN executions :
       /\ quotes[q].quote.status = "completed"
       /\ executions[q].client_swap_complete
       /\ liquidity[quotes[q].quote.from_mint].balance
             >= quotes[q].quote.input_amount

\* The swap at the mint failed: the quote is still Accepted and its execution
\* is not marked complete.
C38_WitnessFailure ==
    /\ lastResp.op = "complete_swap"
    /\ lastResp.res = "Cdk"
    /\ \E q \in DOMAIN executions :
          /\ quotes[q].quote.status = "accepted"
          /\ ~executions[q].client_swap_complete

\* C39: for every quote there is at most one swap record in the Store, and a
\* swap record exists only for a quote whose stored status is accepted or
\* completed.
C39_OneSwapRecord ==
    /\ \A i, j \in DOMAIN dbSwaps :
          dbSwaps[i].quote_id = dbSwaps[j].quote_id => i = j
    /\ \A i \in DOMAIN dbSwaps :
          /\ dbSwaps[i].quote_id \in DOMAIN dbQuotes
          /\ dbQuotes[dbSwaps[i].quote_id].status \in {"accepted", "completed"}

\* Two requests to accept one quote ran together and one swap record was
\* written; the quote was then completed.
C39_Witness ==
    /\ \E i \in DOMAIN dbSwaps :
          /\ dbQuotes[dbSwaps[i].quote_id].status = "completed"
          /\ dbSwaps[i].completed_at >= 0
    /\ \E i \in DOMAIN dbSwaps :
          /\ dbQuotes[dbSwaps[i].quote_id].status = "accepted"
          /\ lastResp.op = "accept_quote"
          /\ lastResp.res = "InvalidSwapRequest"

====
